---- MODULE Spec2Model ----
(***************************************************************************)
(* A model of the cloud-os file manager: the storage proxy routes          *)
(* (src/app/api/bunny/...), the BunnyAPI client (src/app/lib/bunny-api.ts),*)
(* the connection form (ConnectionManager.handleConnect), the file         *)
(* manager's listing loads and upload batch (FileManager.loadFiles,        *)
(* onDrop), the image optimizer (ImageOptimizer.handleOptimize,            *)
(* handleAspectRatioChange, BunnyAPI.optimizeImage), a store-then-list     *)
(* round trip against the storage zone, the file manager's actions on a    *)
(* listed entry (delete, download, link, folder creation, navigation), its *)
(* folder tree (toggleFolderExpansion) and what the calls write to the     *)
(* console.                                                                *)
(*                                                                         *)
(* Strings that the code takes apart (paths, file names, URL suffixes,     *)
(* messages) are sequences of one-character or one-token strings; strings  *)
(* that are only compared (host, zone, secret) are TLA+ strings.           *)
(***************************************************************************)
EXTENDS Integers, Sequences, FiniteSets, TLC

\* ------------------------------------------------------------------ bounds
\* Longest path argument enumerated ("/a/b/" has length 5).
MaxPathLen == 5

\* --------------------------------------------------------------- alphabets
Chars == {"/", "a", "b"}
Paths == UNION {[1..n -> Chars] : n \in 0..MaxPathLen}

\* JavaScript null / undefined, for string-valued and path-valued inputs.
Null == "<null>"
NullPath == <<"<null>">>
NoFile == [name |-> <<>>, present |-> FALSE]

Root == <<"/">>

\* The values a credential field can take in a request or in the form.
Hosts == {Null, "", "storage.bunnycdn.com", "https://storage.bunnycdn.com"}
Users == {Null, "", "zone"}
Passwords == {Null, "", "secret"}
Urls == {"", "https://pull.b-cdn.net"}
PathInputs == Paths \cup {NullPath}
Files == {NoFile, [name |-> <<"f">>, present |-> TRUE]}

\* Upstream outcomes of one HTTP request as axios reports them.
Statuses == {200, 201, 204, 401, 403, 404, 500}
StatusTexts == {<<>>, <<"StatusText">>}
ErrorMessages == {<<>>, <<"Network Error">>}
Outcomes ==
    [kind : {"response"}, status : Statuses, statusText : StatusTexts, message : {<<>>}]
    \cup [kind : {"noResponse", "setupError"}, status : {0}, statusText : {<<>>},
          message : ErrorMessages]
NoOutcome == [kind |-> "none", status |-> 0, statusText |-> <<>>, message |-> <<>>]

\* ------------------------------------------------------- JavaScript helpers
\* !x for a string-valued x: null, undefined and '' are falsy.
Falsy(x) == x = Null \/ x = ""
FalsyPath(p) == p = NullPath \/ p = <<>>
startsWith(s, c) == Len(s) >= 1 /\ s[1] = c
endsWith(s, c) == Len(s) >= 1 /\ s[Len(s)] = c
substring(s, from) == SubSeq(s, from + 1, Len(s))

\* String(status) inside a template literal.
StatusStr(s) ==
    CASE s = 200 -> "200" [] s = 201 -> "201" [] s = 204 -> "204"
      [] s = 401 -> "401" [] s = 403 -> "403" [] s = 404 -> "404"
      [] s = 500 -> "500" [] OTHER -> "0"

\* host.replace(/^https?:\/\//, '')
cleanHost(host) ==
    IF host = "https://storage.bunnycdn.com" THEN "storage.bunnycdn.com" ELSE host

\* `https://${cleanHost}/${user}/`
baseUrl(host, user) == [host |-> cleanHost(host), user |-> user]

\* mutant: the client addresses the public delivery URL
getBaseUrl_pullZone(conn) == [host |-> conn.url, user |-> ""]

\* BunnyAPI.getBaseUrl: host defaults to storage.bunnycdn.com.
getBaseUrl(conn) ==
    baseUrl(IF Falsy(conn.host) THEN "storage.bunnycdn.com" ELSE conn.host, conn.user)

\* axios settles a request: it resolves on a 2xx response and rejects otherwise.
Is2xx(s) == s >= 200 /\ s < 300
AxiosResolves(o) == o.kind = "response" /\ Is2xx(o.status)

\* ------------------------------------------------ path normalization (routes)
\* files/route.ts GET: path defaults to '/', root maps to '', one leading
\* '/' is removed, and '/' is appended to a non-empty normalized path.
FilesGET_suffix(pathParam) ==
    LET path == IF FalsyPath(pathParam) THEN Root ELSE pathParam
        normalizedPath ==
            IF path = Root THEN <<>>
            ELSE IF startsWith(path, "/") THEN substring(path, 1) ELSE path
    IN  normalizedPath \o (IF normalizedPath # <<>> THEN <<"/">> ELSE <<>>)

\* files/route.ts POST: `${baseUrl}${normalizedPath}${file.name}`
FilesPOST_suffix(pathParam, file) ==
    LET path == IF FalsyPath(pathParam) THEN Root ELSE pathParam
        normalizedPath ==
            IF path = Root THEN <<>>
            ELSE IF startsWith(path, "/") THEN substring(path, 1) ELSE path
    IN  normalizedPath \o file.name

\* files/route.ts DELETE
FilesDELETE_suffix(path) ==
    IF startsWith(path, "/") THEN substring(path, 1) ELSE path

\* download/route.ts GET
DownloadGET_suffix(path) ==
    IF startsWith(path, "/") THEN substring(path, 1) ELSE path

\* ------------------------------------------------ path normalization (client)
listFiles_suffix(path) ==
    LET normalizedPath ==
            IF path = Root THEN <<>>
            ELSE IF startsWith(path, "/") THEN substring(path, 1) ELSE path
    IN  normalizedPath \o (IF normalizedPath # <<>> THEN <<"/">> ELSE <<>>)

\* mutant: the leading '/' is kept
uploadFile_suffix_unstripped(path, file) ==
    (IF path = Root THEN <<>> ELSE path) \o file.name

uploadFile_suffix(path, file) ==
    LET normalizedPath ==
            IF path = Root THEN <<>>
            ELSE IF startsWith(path, "/") THEN substring(path, 1) ELSE path
    IN  normalizedPath \o file.name

deleteFile_suffix(path) ==
    IF startsWith(path, "/") THEN substring(path, 1) ELSE path

downloadFile_suffix(path) ==
    IF startsWith(path, "/") THEN substring(path, 1) ELSE path

\* ------------------------------------------------------------------- state
VARIABLES
    pc,          \* "idle" | "awaiting" (a handler awaits axios) | "done"
    call,        \* the invocation being served: layer, operation and inputs
    req,         \* the upstream request the invocation issued, or NoReq
    outcome,     \* how that request settled, or NoOutcome
    res,         \* what the invocation handed to its caller, or NoRes
    probe,       \* what testConnection handed to handleConnect, or NoRes
    connection,  \* Home's connection state: NoConnection or a BunnyConnection
    \* FileManager (mounted while connected)
    currentPath, \* useState('/')
    files,       \* the listing shown: the directory it was returned for
    isLoading,   \* useState(false)
    hasError,    \* useState(false)
    loadFlag,    \* the error flag loadFiles raised last, or <<>>
    loads,       \* listing requests of loadFiles in flight, in issue order
    batch,       \* per onDrop invocation: its closure and progress
    net,         \* upload requests in flight
    requested,   \* the path of the latest loadFiles call
    \* ImageOptimizer (mounted while the optimizer dialog is open)
    isOptimizing,  \* useState(false)
    opt,           \* the handleOptimize invocation: its closure and progress
    canvas,        \* what optimizeImage did to its canvas, or NoCanvas
    optReports,    \* onSuccess / onError calls of the invocation, in order
    originalImage, \* useState(null): the natural size of the loaded image
    aspectRatio,   \* useState('free')
    crop,          \* useState<Crop>(): the crop rectangle shown
    \* the storage zone behind the storage API, and one store-then-list
    zone,          \* object key -> length, for the objects the zone holds
    rt,            \* the store / list calls of one round trip
    \* FileManager: the actions on a listed entry, and the folder tree
    entry,         \* the delete / download / create-folder invocation
    tree           \* expandedFolders, folderContents and their listings in flight

proxyVars == <<pc, call, req, outcome, res, probe>>
fmVars == <<currentPath, files, isLoading, hasError, loadFlag, loads, batch, net,
           requested>>
optimizerVars == <<isOptimizing, opt, canvas, optReports>>
cropVars == <<originalImage, aspectRatio, crop>>
imageVars == <<optimizerVars, cropVars>>
storeVars == <<zone, rt>>
navVars == <<entry, tree>>
vars == <<pc, call, req, outcome, res, probe, connection,
          currentPath, files, isLoading, hasError, loadFlag, loads, batch, net,
          requested,
          isOptimizing, opt, canvas, optReports, originalImage, aspectRatio, crop,
          zone, rt, entry, tree>>

NoReq == [method |-> "none", base |-> baseUrl("", ""), suffix |-> <<>>,
          accessKey |-> "", endpoint |-> "none"]
NoRes == [kind |-> "none", status |-> 0, success |-> FALSE, error |-> <<>>]
NoCall == [layer |-> "none", op |-> "none", host |-> "", user |-> "", password |-> "",
           url |-> "", path |-> <<>>, file |-> NoFile, body |-> "none"]
NoConnection == [host |-> Null, user |-> Null, password |-> Null, url |-> Null]

Call(layer, op, host, user, password, url, path, file, body) ==
    [layer |-> layer, op |-> op, host |-> host, user |-> user, password |-> password,
     url |-> url, path |-> path, file |-> file, body |-> body]

\* An authenticated request to https://{host}/{zone}/{suffix}.
Request(method, base, suffix, accessKey) ==
    [method |-> method, base |-> base, suffix |-> suffix, accessKey |-> accessKey,
     endpoint |-> "storage"]

\* NextResponse.json(body, {status})
JsonResponse(status, success, error) ==
    [kind |-> "response", status |-> status, success |-> success, error |-> error]
\* a value returned (a resolved promise) by a BunnyAPI method
Returned(success, error) ==
    [kind |-> "return", status |-> 0, success |-> success, error |-> error]
\* throw new Error(message): a rejected promise
Thrown(message) ==
    [kind |-> "throw", status |-> 0, success |-> FALSE, error |-> message]
\* Home.addFlag({appearance, description})
Flag(appearance, description) ==
    [kind |-> "flag", status |-> 0, success |-> appearance = "success",
     error |-> description]

\* ---------------------------------------------------- FileManager: state
MaxFiles == 2       \* files in one drop
MaxBatches == 1     \* onDrop invocations that may overlap
MaxPending == 2     \* loads in flight plus running batches before a click is taken

\* A drop holds distinct files; their names are the first names of this list.
AllNames == <<<<"f">>, <<"g">>, <<"h">>, <<"i">>>>
FolderNames == {<<"a">>}
Batches == 1..MaxBatches
Drops == {SubSeq(AllNames, 1, n) : n \in 1..MaxFiles}
NoListing == <<"<none>">>
IdleBatch == [pc |-> "idle", files |-> <<>>, path |-> <<>>, hadError |-> FALSE,
              reports |-> <<>>, settled |-> <<>>]

\* the useState initial values of FileManager
FileManagerUnmounted ==
    /\ currentPath = Root
    /\ files = NoListing
    /\ isLoading = FALSE
    /\ hasError = FALSE
    /\ loadFlag = <<>>
    /\ loads = <<>>
    /\ batch = [b \in Batches |-> IdleBatch]
    /\ net = {}
    /\ requested = Root

\* ------------------------------------------------- JavaScript numbers
\* The numbers the image code computes with: a rational <<n, d>> in lowest
\* terms with d > 0, or NaN.  The divisors met here are never 0 (image
\* sides and ratio terms are positive), so no infinity is needed.
RECURSIVE GCD(_, _)
GCD(a, b) == IF b = 0 THEN a ELSE GCD(b, a % b)
Abs(n) == IF n < 0 THEN -n ELSE n
Rat(n, d) ==
    LET g == GCD(Abs(n), Abs(d))
        sgn == IF d < 0 THEN -1 ELSE 1
    IN  <<(sgn * n) \div g, (sgn * d) \div g>>
Num(n) == <<n, 1>>
NaN == <<0, 0>>
\* undefined where a number is expected (a missing array element)
Undefined == <<0, -1>>
IsNumber(x) == x[2] > 0
\* a * b, a / b, a - b, Math.min(a, b), a > b
Times(a, b) ==
    IF IsNumber(a) /\ IsNumber(b) THEN Rat(a[1] * b[1], a[2] * b[2]) ELSE NaN
Over(a, b) ==
    IF IsNumber(a) /\ IsNumber(b) /\ b[1] # 0 THEN Rat(a[1] * b[2], a[2] * b[1])
    ELSE NaN
Minus(a, b) ==
    IF IsNumber(a) /\ IsNumber(b) THEN Rat(a[1] * b[2] - b[1] * a[2], a[2] * b[2])
    ELSE NaN
Greater(a, b) == IsNumber(a) /\ IsNumber(b) /\ a[1] * b[2] > b[1] * a[2]
MathMin(a, b) ==
    IF IsNumber(a) /\ IsNumber(b) THEN (IF Greater(a, b) THEN b ELSE a) ELSE NaN

\* ------------------------------------------------ ImageOptimizer: state
MaxSide == 2        \* natural image sides of optimized images: 100..100*MaxSide px
MaxCropSide == 4    \* natural image sides for the aspect-ratio helper, in 100 px

Sides == {100 * k : k \in 1..MaxSide}
ImageSizes == [width : Sides, height : Sides]
CropSides == {100 * k : k \in 1..MaxCropSide}
CropImageSizes == [width : CropSides, height : CropSides]
NoImage == [width |-> 0, height |-> 0]

\* width?: number, height?: number: undefined or what parseInt gave
UndefinedNumber == -1
Formats == {"webp", "jpeg", "png", "avif"}
\* the quality slider: <FieldRange min={10} max={100} step={5}>
QualityMin == 10
QualityMax == 100
QualityStep == 5
Qualities == {q \in QualityMin..QualityMax : (q - QualityMin) % QualityStep = 0}
OptionValues ==
    [width : {UndefinedNumber} \cup Sides, height : {UndefinedNumber} \cup Sides,
     quality : Qualities, format : Formats]
\* useState<ImageOptimizationOptions>({...})
InitialOptions ==
    [width |-> UndefinedNumber, height |-> UndefinedNumber, quality |-> 80,
     format |-> "webp"]

\* completedCrop (in displayed pixels) and naturalWidth / width of the <img>
PixelCrop(x, y, w, h) == [present |-> TRUE, x |-> x, y |-> y, width |-> w, height |-> h]
NoPixelCrop == [present |-> FALSE, x |-> 0, y |-> 0, width |-> 0, height |-> 0]
CompletedCrops == {NoPixelCrop, PixelCrop(0, 0, 50, 50), PixelCrop(0, 0, 25, 25)}
Scales == {1, 2}

\* the file the dialog was opened for; uploaded: a local file was picked
OptimizerFile(name, path, uploaded) ==
    [ObjectName |-> name, Path |-> path, uploaded |-> uploaded]
NoOptimizerFile == OptimizerFile(<<>>, <<>>, FALSE)
OptimizerFiles ==
    {OptimizerFile(<<"f", ".", "png">>, <<"/">>, u) : u \in BOOLEAN}

IdleOpt ==
    [pc |-> "idle", file |-> NoOptimizerFile, options |-> InitialOptions,
     completedCrop |-> NoPixelCrop, crop |-> NoPixelCrop, fetch |-> "none",
     transform |-> "none",
     upload |-> "none", settles |-> 0, req |-> NoReq, optimized |-> <<>>,
     newFileName |-> <<>>]
NoCanvas ==
    [set |-> FALSE, img |-> NoImage, width |-> 0, height |-> 0,
     source |-> NoPixelCrop, type |-> <<>>, quality |-> NaN]

\* the values of aspectRatioOptions, as the characters split('/') sees
AspectRatioValues ==
    {<<"free">>, <<"original">>, <<"1">>, <<"4", "/", "3">>, <<"16", "/", "9">>,
     <<"3", "/", "2">>, <<"2", "/", "3">>}
Crop(x, y, w, h) == [unit |-> "px", x |-> x, y |-> y, width |-> w, height |-> h]
NoCrop == [unit |-> "none", x |-> Num(0), y |-> Num(0), width |-> Num(0),
           height |-> Num(0)]

\* the useState initial values of ImageOptimizer
ImageOptimizerUnmounted ==
    /\ isOptimizing = FALSE
    /\ opt = IdleOpt
    /\ canvas = NoCanvas
    /\ optReports = <<>>
    /\ originalImage = NoImage
    /\ aspectRatio = <<"free">>
    /\ crop = NoCrop

\* ---------------------------------------------------- storage zone: state
MaxBytes == 2       \* longest body stored, in bytes

IdleRt == [pc |-> "idle", d |-> <<>>, f |-> <<>>, n |-> 0, req |-> NoReq,
           entries |-> {}]
ZoneUntouched ==
    /\ zone = {}
    /\ rt = IdleRt

\* ------------------------------------- entries and folder tree: state
\* The folders of the zone: a lists b, b lists nothing.
NavFolders == {<<"a">>, <<"b">>}
IdleEntry == [pc |-> "idle", op |-> "none", name |-> <<>>, path |-> <<>>,
              listed |-> <<>>, hadError |-> FALSE, confirmed |-> FALSE, req |-> NoReq,
              reports |-> <<>>]
NotLoaded == <<"<not loaded>">>
IdleTree == [folderTree |-> NotLoaded,
             expandedFolders |-> {},
             folderContents |-> [n \in NavFolders |-> NotLoaded],
             loads |-> {}]
EntriesUntouched ==
    /\ entry = IdleEntry
    /\ tree = IdleTree

Init ==
    /\ pc = "idle"
    /\ call = NoCall
    /\ req = NoReq
    /\ outcome = NoOutcome
    /\ res = NoRes
    /\ probe = NoRes
    /\ connection = NoConnection
    /\ FileManagerUnmounted
    /\ ImageOptimizerUnmounted
    /\ ZoneUntouched
    /\ EntriesUntouched

\* A handler returns before any network call (validation failure).
Finish(c, r) ==
    /\ pc' = "done"
    /\ call' = c
    /\ req' = NoReq
    /\ outcome' = NoOutcome
    /\ res' = r
    /\ probe' = NoRes
    /\ UNCHANGED <<connection, fmVars, imageVars, storeVars, navVars>>

\* A handler issues its request and suspends at `await axios...`.
Await(c, q) ==
    /\ pc' = "awaiting"
    /\ call' = c
    /\ req' = q
    /\ outcome' = NoOutcome
    /\ res' = NoRes
    /\ probe' = NoRes
    /\ UNCHANGED <<connection, fmVars, imageVars, storeVars, navVars>>

\* The awaited request settles with outcome o and the handler runs to its end.
Settle(o, r) ==
    /\ pc' = "done"
    /\ outcome' = o
    /\ res' = r
    /\ UNCHANGED <<call, req, fmVars, imageVars, storeVars, navVars>>

\* ... in a handler that leaves the session state alone.
SettleCall(o, r) == Settle(o, r) /\ UNCHANGED <<probe, connection>>

Ready == pc = "idle"

\* The finished invocation's result has been consumed; the next one may start.
Return ==
    /\ pc = "done"
    /\ pc' = "idle"
    /\ call' = NoCall
    /\ req' = NoReq
    /\ outcome' = NoOutcome
    /\ res' = NoRes
    /\ probe' = NoRes
    /\ UNCHANGED <<connection, fmVars, imageVars, storeVars, navVars>>
Awaiting(layer, op) == pc = "awaiting" /\ call.layer = layer /\ call.op = op

\* ------------------------------------------------------------ server routes
MissingRequiredFields == <<"Missing required fields">>

\* catch (error) of the four storage routes: the upstream status is relayed
\* when error.response exists, 500 otherwise.
RouteCatch(label, o) ==
    IF o.kind = "response"
    THEN JsonResponse(o.status, FALSE,
                      <<label, ": ", StatusStr(o.status), " ">> \o o.statusText)
    ELSE JsonResponse(500, FALSE, <<label>>)

FilesGET_missing(host, user, password) ==
    Falsy(host) \/ Falsy(user) \/ Falsy(password)
FilesGET_result(o) ==
    IF AxiosResolves(o) THEN JsonResponse(200, TRUE, <<>>)
    ELSE RouteCatch("Failed to list files", o)
FilesGET(host, user, password, pathParam) ==
    /\ Ready
    /\ LET c == Call("route", "list", host, user, password, "", pathParam, NoFile, "query")
       IN  IF FilesGET_missing(host, user, password)
           THEN Finish(c, JsonResponse(400, FALSE, MissingRequiredFields))
           ELSE Await(c, Request("GET", baseUrl(host, user),
                                 FilesGET_suffix(pathParam), password))
FilesGET_settle(o) ==
    /\ Awaiting("route", "list")
    /\ SettleCall(o, FilesGET_result(o))

FilesPOST_missing(host, user, password, file) ==
    Falsy(host) \/ Falsy(user) \/ Falsy(password) \/ ~file.present
FilesPOST_result(o) ==
    IF AxiosResolves(o) THEN JsonResponse(200, TRUE, <<>>)
    ELSE RouteCatch("Failed to upload file", o)
FilesPOST(host, user, password, pathParam, file) ==
    /\ Ready
    /\ LET c == Call("route", "store", host, user, password, "", pathParam, file, "form")
       IN  IF FilesPOST_missing(host, user, password, file)
           THEN Finish(c, JsonResponse(400, FALSE, MissingRequiredFields))
           ELSE Await(c, Request("PUT", baseUrl(host, user),
                                 FilesPOST_suffix(pathParam, file), password))
FilesPOST_settle(o) ==
    /\ Awaiting("route", "store")
    /\ SettleCall(o, FilesPOST_result(o))

\* mutant: the path is not validated
FilesDELETE_missing_noPath(host, user, password, path) ==
    Falsy(host) \/ Falsy(user) \/ Falsy(password)

FilesDELETE_missing(host, user, password, path) ==
    Falsy(host) \/ Falsy(user) \/ Falsy(password) \/ FalsyPath(path)
FilesDELETE_result(o) ==
    IF AxiosResolves(o) THEN JsonResponse(200, TRUE, <<>>)
    ELSE RouteCatch("Failed to delete file", o)
FilesDELETE(host, user, password, path) ==
    /\ Ready
    /\ LET c == Call("route", "remove", host, user, password, "", path, NoFile, "query")
       IN  IF FilesDELETE_missing(host, user, password, path)
           THEN Finish(c, JsonResponse(400, FALSE, MissingRequiredFields))
           ELSE Await(c, Request("DELETE", baseUrl(host, user),
                                 FilesDELETE_suffix(path), password))
FilesDELETE_settle(o) ==
    /\ Awaiting("route", "remove")
    /\ SettleCall(o, FilesDELETE_result(o))

DownloadGET_missing(host, user, password, path) ==
    Falsy(host) \/ Falsy(user) \/ Falsy(password) \/ FalsyPath(path)
DownloadGET_result(o) ==
    IF AxiosResolves(o) THEN JsonResponse(200, TRUE, <<>>)
    ELSE RouteCatch("Failed to download file", o)
DownloadGET(host, user, password, path) ==
    /\ Ready
    /\ LET c == Call("route", "fetch", host, user, password, "", path, NoFile, "query")
       IN  IF DownloadGET_missing(host, user, password, path)
           THEN Finish(c, JsonResponse(400, FALSE, MissingRequiredFields))
           ELSE Await(c, Request("GET", baseUrl(host, user),
                                 DownloadGET_suffix(path), password))
DownloadGET_settle(o) ==
    /\ Awaiting("route", "fetch")
    /\ SettleCall(o, DownloadGET_result(o))

\* ------------------------------------------------- connection test (route)
AuthenticationFailed ==
    <<"Authentication failed. Please check your Access Key (password).">>
ZoneNotFound ==
    <<"Storage zone not found. Please check your User (storage zone name).">>
ServerError(o) == <<"Server error: ", StatusStr(o.status), " ">> \o o.statusText
RouteNoResponse ==
    <<"No response from server. Check your network connection and credentials.">>
ClientNoResponse ==
    <<"No response from server. This might be a CORS or network issue. Check your network connection.">>
ConnectionFailed == <<"Connection failed">>

\* the inner catch of the connection test route
TestPOST_errorMessage(o) ==
    IF o.kind = "response"
    THEN IF o.status = 401 THEN AuthenticationFailed
         ELSE IF o.status = 404 THEN ZoneNotFound
         ELSE ServerError(o)
    ELSE IF o.kind = "noResponse" THEN RouteNoResponse
    ELSE IF o.message # <<>> THEN o.message ELSE ConnectionFailed

TestPOST_result(o) ==
    IF AxiosResolves(o) THEN JsonResponse(200, o.status = 200, <<>>)
    ELSE JsonResponse(200, FALSE, TestPOST_errorMessage(o))

TestPOST_missing(host, user, password) ==
    Falsy(host) \/ Falsy(user) \/ Falsy(password)

\* body = "malformed": request.json() rejects and the outer catch answers 500.
TestPOST(body, host, user, password) ==
    /\ Ready
    /\ LET c == Call("route", "probe", host, user, password, "", <<>>, NoFile, body)
       IN  IF body = "malformed"
           THEN Finish(c, JsonResponse(500, FALSE, <<"Unexpected token">>))
           ELSE IF TestPOST_missing(host, user, password)
           THEN Finish(c, JsonResponse(400, FALSE, MissingRequiredFields))
           ELSE Await(c, Request("GET", baseUrl(host, user), <<>>, password))
TestPOST_settle(o) ==
    /\ Awaiting("route", "probe")
    /\ SettleCall(o, TestPOST_result(o))

\* ------------------------------------------------------- BunnyAPI (client)
\* mutant: 403 is reported as an authentication failure too
testConnection_errorMessage_403(o) ==
    IF o.kind = "response"
    THEN IF o.status \in {401, 403} THEN AuthenticationFailed
         ELSE IF o.status = 404 THEN ZoneNotFound
         ELSE ServerError(o)
    ELSE IF o.kind = "noResponse" THEN ClientNoResponse
    ELSE IF o.message # <<>> THEN o.message ELSE ConnectionFailed

\* the catch block of testConnection
testConnection_errorMessage(o) ==
    IF o.kind = "response"
    THEN IF o.status = 401 THEN AuthenticationFailed
         ELSE IF o.status = 404 THEN ZoneNotFound
         ELSE ServerError(o)
    ELSE IF o.kind = "noResponse" THEN ClientNoResponse
    ELSE IF o.message # <<>> THEN o.message ELSE ConnectionFailed

\* mutant: a request-setup error is rethrown instead of being reported
testConnection_result_rethrow(o) ==
    IF AxiosResolves(o) THEN Returned(o.status = 200, <<>>)
    ELSE IF o.kind = "setupError" THEN Thrown(o.message)
    ELSE Returned(FALSE, testConnection_errorMessage(o))

\* mutant: every probe reports success
testConnection_result_alwaysOk(o) == Returned(TRUE, <<>>)

\* testConnection(): {success, error?}
testConnection_result(o) ==
    IF AxiosResolves(o) THEN Returned(o.status = 200, <<>>)
    ELSE Returned(FALSE, testConnection_errorMessage(o))

\* the earlier testConnection(): boolean
testConnectionBool_result(o) ==
    IF AxiosResolves(o) THEN Returned(o.status = 200, <<>>)
    ELSE Returned(FALSE, <<>>)

listFiles_result(o) ==
    IF AxiosResolves(o) THEN Returned(TRUE, <<>>) ELSE Thrown(<<"Failed to list files">>)
uploadFile_result(o) ==
    IF AxiosResolves(o) THEN Returned(TRUE, <<>>) ELSE Thrown(<<"Failed to upload file">>)
deleteFile_result(o) ==
    IF AxiosResolves(o) THEN Returned(TRUE, <<>>) ELSE Thrown(<<"Failed to delete file">>)
downloadFile_result(o) ==
    IF AxiosResolves(o) THEN Returned(TRUE, <<>>)
    ELSE Thrown(<<"Failed to download file">>)

Connected == connection # NoConnection
ClientCall(op, path, file) ==
    Call("client", op, connection.host, connection.user, connection.password,
         connection.url, path, file, "none")

listFiles(path) ==
    /\ Ready /\ Connected
    /\ Await(ClientCall("list", path, NoFile),
             Request("GET", getBaseUrl(connection), listFiles_suffix(path),
                     connection.password))
listFiles_settle(o) ==
    /\ Awaiting("client", "list")
    /\ SettleCall(o, listFiles_result(o))

uploadFile(file, path) ==
    /\ Ready /\ Connected
    /\ Await(ClientCall("store", path, file),
             Request("PUT", getBaseUrl(connection), uploadFile_suffix(path, file),
                     connection.password))
uploadFile_settle(o) ==
    /\ Awaiting("client", "store")
    /\ SettleCall(o, uploadFile_result(o))

deleteFile(path) ==
    /\ Ready /\ Connected
    /\ Await(ClientCall("remove", path, NoFile),
             Request("DELETE", getBaseUrl(connection), deleteFile_suffix(path),
                     connection.password))
deleteFile_settle(o) ==
    /\ Awaiting("client", "remove")
    /\ SettleCall(o, deleteFile_result(o))

downloadFile(path) ==
    /\ Ready /\ Connected
    /\ Await(ClientCall("fetch", path, NoFile),
             Request("GET", getBaseUrl(connection), downloadFile_suffix(path),
                     connection.password))
downloadFile_settle(o) ==
    /\ Awaiting("client", "fetch")
    /\ SettleCall(o, downloadFile_result(o))

\* ------------------------------------------------------ ConnectionManager
FillRequiredFields == <<"Please fill in all required fields">>
CheckCredentials == <<"Failed to connect to server. Please check your credentials.">>
CheckCredentialsRetry ==
    <<"Connection failed. Please check your credentials and try again.">>

Connection(host, user, password, url) ==
    [host |-> host, user |-> user, password |-> password, url |-> url]

handleConnect_missing(host, user, password, url) ==
    Falsy(host) \/ Falsy(user) \/ Falsy(password) \/ Falsy(url)

\* handleConnect up to `await api.testConnection()`.
handleConnect(host, user, password, url) ==
    /\ Ready /\ ~Connected
    /\ LET c == Call("ui", "connect", host, user, password, url, <<>>, NoFile, "form")
       IN  IF handleConnect_missing(host, user, password, url)
           THEN Finish(c, Flag("error", FillRequiredFields))
           ELSE Await(c, Request("GET", getBaseUrl(Connection(host, user, password, url)),
                                 <<>>, password))

\* What handleConnect does with the settled probe: onConnectionSuccess sets
\* Home's connection, every other branch reports an error flag.
handleConnect_settle(o) ==
    /\ Awaiting("ui", "connect")
    /\ LET result == testConnection_result(o)
           conn == Connection(call.host, call.user, call.password, call.url)
       IN  /\ probe' = result
           /\ IF result.kind = "throw"
              THEN /\ res' = Flag("error", IF result.error # <<>> THEN result.error
                                           ELSE CheckCredentialsRetry)
                   /\ UNCHANGED connection
              ELSE IF result.success
              THEN /\ res' = Flag("success", <<"Connected to ", conn.host>>)
                   /\ connection' = conn
              ELSE /\ res' = Flag("error", IF result.error # <<>> THEN result.error
                                           ELSE CheckCredentials)
                   /\ UNCHANGED connection
    /\ pc' = "done"
    /\ outcome' = o
    /\ UNCHANGED <<call, req, fmVars, imageVars, storeVars, navVars>>

\* The earlier ConnectionManager: host fixed, boolean probe.
handleConnectBool_missing(user, password, url) ==
    Falsy(user) \/ Falsy(password) \/ Falsy(url)

handleConnectBool(user, password, url) ==
    /\ Ready /\ ~Connected
    /\ LET c == Call("ui", "connectBool", "storage.bunnycdn.com", user, password, url,
                     <<>>, NoFile, "form")
       IN  IF handleConnectBool_missing(user, password, url)
           THEN Finish(c, Flag("error", FillRequiredFields))
           ELSE Await(c, Request("GET", baseUrl("storage.bunnycdn.com", user),
                                 <<>>, password))

handleConnectBool_settle(o) ==
    /\ Awaiting("ui", "connectBool")
    /\ LET result == testConnectionBool_result(o)
           conn == Connection(call.host, call.user, call.password, call.url)
       IN  /\ probe' = result
           /\ IF result.kind = "throw"
              THEN /\ res' = Flag("error", CheckCredentialsRetry)
                   /\ UNCHANGED connection
              ELSE IF result.success
              THEN /\ res' = Flag("success", <<"Connected to ", conn.host>>)
                   /\ connection' = conn
              ELSE /\ res' = Flag("error", CheckCredentials)
                   /\ UNCHANGED connection
    /\ pc' = "done"
    /\ outcome' = o
    /\ UNCHANGED <<call, req, fmVars, imageVars, storeVars, navVars>>

\* Home: onDisconnect={() => setConnection(null) ...}
onDisconnect ==
    /\ Ready /\ Connected
    /\ pc' = "done"
    /\ call' = Call("ui", "disconnect", connection.host, connection.user,
                    connection.password, connection.url, <<>>, NoFile, "none")
    /\ req' = NoReq
    /\ outcome' = NoOutcome
    /\ res' = Flag("success", <<"Successfully disconnected from storage">>)
    /\ probe' = NoRes
    /\ connection' = NoConnection
    /\ UNCHANGED <<fmVars, imageVars, storeVars, navVars>>

\* ------------------------------------------------------------ specification
FormHosts == Hosts \ {Null}
FormUsers == Users \ {Null}
FormPasswords == Passwords \ {Null}
\* deleteFile and downloadFile are only called with `${dir}/${ObjectName}`.
ClientFilePaths == Paths \ {<<>>}
ClientFiles == Files \ {NoFile}
Bodies == {"json", "malformed"}

\* Ready is tested before the inputs are enumerated.
Next ==
    \/ /\ Ready
       /\ \E h \in Hosts, u \in Users, pw \in Passwords, p \in PathInputs :
                 FilesGET(h, u, pw, p)
    \/ \E o \in Outcomes : FilesGET_settle(o)
    \/ /\ Ready
       /\ \E h \in Hosts, u \in Users, pw \in Passwords, p \in PathInputs, f \in Files :
                 FilesPOST(h, u, pw, p, f)
    \/ \E o \in Outcomes : FilesPOST_settle(o)
    \/ /\ Ready
       /\ \E h \in Hosts, u \in Users, pw \in Passwords, p \in PathInputs :
                 FilesDELETE(h, u, pw, p)
    \/ \E o \in Outcomes : FilesDELETE_settle(o)
    \/ /\ Ready
       /\ \E h \in Hosts, u \in Users, pw \in Passwords, p \in PathInputs :
                 DownloadGET(h, u, pw, p)
    \/ \E o \in Outcomes : DownloadGET_settle(o)
    \/ /\ Ready
       /\ \E b \in Bodies, h \in Hosts, u \in Users, pw \in Passwords :
                 TestPOST(b, h, u, pw)
    \/ \E o \in Outcomes : TestPOST_settle(o)
    \/ /\ Ready
       /\ \E h \in FormHosts, u \in FormUsers, pw \in FormPasswords, url \in Urls :
                 handleConnect(h, u, pw, url)
    \/ \E o \in Outcomes : handleConnect_settle(o)
    \/ /\ Ready
       /\ \E u \in FormUsers, pw \in FormPasswords, url \in Urls :
                 handleConnectBool(u, pw, url)
    \/ \E o \in Outcomes : handleConnectBool_settle(o)
    \/ onDisconnect
    \/ Ready /\ \E p \in Paths : listFiles(p)
    \/ \E o \in Outcomes : listFiles_settle(o)
    \/ Ready /\ \E p \in Paths, f \in ClientFiles : uploadFile(f, p)
    \/ \E o \in Outcomes : uploadFile_settle(o)
    \/ Ready /\ \E p \in ClientFilePaths : deleteFile(p)
    \/ \E o \in Outcomes : deleteFile_settle(o)
    \/ Ready /\ \E p \in ClientFilePaths : downloadFile(p)
    \/ \E o \in Outcomes : downloadFile_settle(o)
    \/ Return

Spec == Init /\ [][Next]_vars

\* =================================================================== claims
StorageOps == {"list", "fetch", "store", "remove"}
\* the invocation passed validation and issued its upstream request
Issued == pc \in {"awaiting", "done"} /\ req # NoReq
\* the invocation's request has settled and the handler has finished
Settled == pc = "done" /\ outcome # NoOutcome
UpstreamFailure(o) == o.kind = "response" /\ ~Is2xx(o.status)
NoUpstreamResponse(o) == o.kind \in {"noResponse", "setupError"}

HasDoubleSlash(s) == \E i \in 1..(Len(s) - 1) : s[i] = "/" /\ s[i + 1] = "/"
EndsInExactlyOneSlash(s) ==
    /\ endsWith(s, "/")
    /\ ~(Len(s) >= 2 /\ s[Len(s) - 1] = "/")
\* the path the operation works on: the routes for list and store read a
\* missing or empty path parameter as the root marker
EffectivePath(c) ==
    IF c.layer = "route" /\ c.op \in {"list", "store"} /\ FalsyPath(c.path)
    THEN Root ELSE c.path
NonRoot(p) == p # Root /\ p # <<>>

\* C1: for every non-root path p passed to list, the suffix of the listing
\* request ends in exactly one '/' and holds no '//' that p did not hold;
\* list('/a/b/') requests 'a/b/' and list('/') requests the empty suffix.
C1_ListSuffixOneTrailingSlash ==
    (Issued /\ call.op = "list") =>
        LET p == EffectivePath(call)
        IN  /\ NonRoot(p) =>
                 /\ EndsInExactlyOneSlash(req.suffix)
                 /\ HasDoubleSlash(req.suffix) => HasDoubleSlash(p)
            /\ p = <<"/", "a", "/", "b", "/">> => req.suffix = <<"a", "/", "b", "/">>
            /\ p = Root => req.suffix = <<>>

\* What C2 expects of the normalization, stated on the characters of p.
StripOneLeadingSlash(p) ==
    IF Len(p) >= 1 /\ p[1] = "/" THEN [i \in 1..(Len(p) - 1) |-> p[i + 1]] ELSE p
ExpectedSuffix(op, p, file) ==
    LET stripped == StripOneLeadingSlash(p)
    IN  CASE op = "list" -> IF stripped = <<>> THEN <<>> ELSE stripped \o <<"/">>
          [] op = "store" -> stripped \o file.name
          [] OTHER -> stripped
\* the suffix the other layer builds for the same operation and path
OtherLayerSuffix(c) ==
    LET p == EffectivePath(c)
    IN  IF c.layer = "route"
        THEN CASE c.op = "list" -> listFiles_suffix(p)
               [] c.op = "store" -> uploadFile_suffix(p, c.file)
               [] c.op = "remove" -> deleteFile_suffix(p)
               [] OTHER -> downloadFile_suffix(p)
        ELSE CASE c.op = "list" -> FilesGET_suffix(p)
               [] c.op = "store" -> FilesPOST_suffix(p, c.file)
               [] c.op = "remove" -> FilesDELETE_suffix(p)
               [] OTHER -> DownloadGET_suffix(p)

\* C2: list, fetch, store and remove remove exactly one leading '/' when p
\* starts with one and nothing otherwise, map '/' to the empty suffix, only
\* list appends a trailing '/', and route and client build the same suffix.
C2_NormalizationRule ==
    (Issued /\ call.op \in StorageOps) =>
        /\ req.suffix = ExpectedSuffix(call.op, EffectivePath(call), call.file)
        /\ req.suffix = OtherLayerSuffix(call)
        /\ EffectivePath(call) = Root /\ call.op # "store" => req.suffix = <<>>
C2_Witness ==
    /\ Issued /\ call.op = "remove" /\ call.layer = "client"
    /\ call.path = <<"/", "/", "a">> /\ req.suffix = <<"/", "a">>

\* C3: every non-2xx upstream status s makes list, fetch, store and remove
\* fail with an error result whose status is exactly s.
C3_UpstreamStatusPropagated ==
    (Settled /\ call.op \in StorageOps /\ UpstreamFailure(outcome)) =>
        /\ res.kind \in {"response", "throw"}
        /\ ~res.success
        /\ res.status = outcome.status

\* what the handler serving invocation c hands back when its request settles as o
ResultOf(c, o) ==
    IF c.layer = "route"
    THEN CASE c.op = "list" -> FilesGET_result(o)
           [] c.op = "store" -> FilesPOST_result(o)
           [] c.op = "remove" -> FilesDELETE_result(o)
           [] OTHER -> DownloadGET_result(o)
    ELSE CASE c.op = "list" -> listFiles_result(o)
           [] c.op = "store" -> uploadFile_result(o)
           [] c.op = "remove" -> deleteFile_result(o)
           [] OTHER -> downloadFile_result(o)

\* C4: a failure without any upstream response is reported differently from
\* every upstream non-2xx response, and the other way round.
C4_NetworkErrorDistinct ==
    (Settled /\ call.op \in StorageOps /\ ~AxiosResolves(outcome)) =>
        /\ ~res.success
        /\ \A o \in Outcomes :
              (NoUpstreamResponse(o) # NoUpstreamResponse(outcome)
                 /\ ~AxiosResolves(o)) => ResultOf(call, o) # res

\* a field the invocation requires is missing or empty
RequiredMissing(c) ==
    LET creds == Falsy(c.host) \/ Falsy(c.user) \/ Falsy(c.password)
    IN  CASE c.layer = "route" /\ c.op = "list" -> creds
          [] c.layer = "route" /\ c.op = "store" -> creds \/ ~c.file.present
          [] c.layer = "route" /\ c.op \in {"fetch", "remove"} ->
                creds \/ FalsyPath(c.path)
          [] c.layer = "route" /\ c.op = "probe" -> c.body = "json" /\ creds
          [] c.layer = "client" /\ c.op \in {"fetch", "remove"} ->
                creds \/ FalsyPath(c.path)
          [] c.layer = "client" /\ c.op = "store" -> creds \/ ~c.file.present
          [] c.layer = "client" -> creds
          [] c.op \in {"connect", "connectBool"} -> creds \/ Falsy(c.url)
          [] OTHER -> FALSE
IsValidationError(r) ==
    \/ r = JsonResponse(400, FALSE, MissingRequiredFields)
    \/ r = Flag("error", FillRequiredFields)

\* C5: when a required field is missing or empty the operation returns a
\* validation error and issues no upstream request.
C5_ValidationBeforeNetwork ==
    (pc # "idle" /\ RequiredMissing(call)) =>
        /\ pc = "done"
        /\ req = NoReq
        /\ outcome = NoOutcome
        /\ IsValidationError(res)
C5_Witness ==
    /\ pc = "done" /\ call.layer = "route" /\ call.op = "remove"
    /\ ~Falsy(call.host) /\ ~Falsy(call.user) /\ ~Falsy(call.password)
    /\ call.path = <<>>
    /\ res.status = 400 /\ req = NoReq

\* the probe of the current code has settled: testConnection inside
\* handleConnect, or the connection test route
ProbeSettled ==
    /\ Settled
    /\ \/ call.layer = "ui" /\ call.op = "connect"
       \/ call.layer = "route" /\ call.op = "probe"
ProbeResult == IF call.layer = "route" THEN res ELSE probe
NoResponseMessage == IF call.layer = "route" THEN RouteNoResponse ELSE ClientNoResponse

\* C6: probe gives the authentication-failed message iff the upstream status
\* is 401 and the zone-not-found message iff it is 404.
C6_ProbeAuthAndNotFound ==
    ProbeSettled =>
        /\ ProbeResult.error = AuthenticationFailed
              <=> (outcome.kind = "response" /\ outcome.status = 401)
        /\ ProbeResult.error = ZoneNotFound
              <=> (outcome.kind = "response" /\ outcome.status = 404)
C6_Witness ==
    /\ ProbeSettled /\ call.layer = "ui"
    /\ outcome.kind = "response" /\ outcome.status = 404
    /\ probe.error = ZoneNotFound /\ ~probe.success

\* C7: any other non-2xx status gives the server-error message with status
\* and status text, no response gives the network-error message, and every
\* failed probe result carries a non-empty reason.
C7_ProbeOtherFailures ==
    ProbeSettled =>
        /\ (UpstreamFailure(outcome) /\ outcome.status \notin {401, 404})
              => ProbeResult.error = ServerError(outcome)
        /\ outcome.kind = "noResponse" => ProbeResult.error = NoResponseMessage
        /\ ~ProbeResult.success => ProbeResult.error # <<>>

\* C8: whatever the upstream call does (2xx, non-2xx, no response, setup
\* error), probe completes with a returned structured result and never throws.
C8_ProbeNeverThrows ==
    /\ (Settled /\ call.op \in {"connect", "connectBool"}) =>
          /\ probe.kind = "return"
          /\ probe.success \in BOOLEAN
          /\ res.kind = "flag"
    /\ (pc = "done" /\ call.layer = "route" /\ call.op = "probe") =>
          /\ res.kind = "response"
          /\ res.success \in BOOLEAN
C8_Witness ==
    /\ Settled /\ call.op = "connect"
    /\ outcome.kind = "setupError" /\ outcome.message = <<>>
    /\ probe = Returned(FALSE, ConnectionFailed)

\* C9: probe is ok exactly when the upstream answers with a 2xx status, and
\* every result that is not ok carries a reason.
C9_ProbeOkIff2xx ==
    ProbeSettled =>
        /\ ProbeResult.success <=> AxiosResolves(outcome)
        /\ ~ProbeResult.success => ProbeResult.error # <<>>

\* ============================================================ FileManager
\* The upstream outcomes the file manager's steps are explored with.
FMOutcomes ==
    {o \in Outcomes : /\ o.statusText = <<>> /\ o.message = <<>>
                      /\ o.kind \in {"response", "noResponse"}
                      /\ o.status \in {0, 200, 500}}

File(name) == [name |-> name, present |-> TRUE]

\* A suspended loadFiles(path): hadError is the hasError value the calling
\* closure captured, next is what its caller does once the call returned.
Load(path, hadError, next) ==
    [path |-> path, hadError |-> hadError, next |-> next,
     req |-> Request("GET", getBaseUrl(connection), listFiles_suffix(path),
                     connection.password)]

\* loadFiles(path) up to `await api.listFiles(path)`, awaited by a caller
\* that goes on with next
loadFiles_await(path, hadError, next) ==
    /\ isLoading' = TRUE
    /\ hasError' = FALSE
    /\ loads' = Append(loads, Load(path, hadError, next))
    /\ requested' = path

\* loadFiles(path) called by a caller that does nothing after it
loadFiles_begin(path, hadError) == loadFiles_await(path, hadError, "none")

\* what is still to settle: every running batch ends in one more load
Pending == Len(loads) + Cardinality({b \in Batches : batch[b].pc = "uploading"})

RemoveAt(seq, k) == SubSeq(seq, 1, k - 1) \o SubSeq(seq, k + 1, Len(seq))

\* the rest of loadFiles once the k-th listing request in flight settled
loadFiles_rest(k, o) ==
    /\ LET load == loads[k]
           result == listFiles_result(o)
       IN  /\ IF result.kind = "throw"
              THEN /\ hasError' = TRUE
                   /\ loadFlag' = IF ~load.hadError THEN <<"Failed to load files">>
                                  ELSE loadFlag
                   /\ UNCHANGED <<files, currentPath>>
              ELSE /\ files' = load.path
                   /\ currentPath' = load.path
                   /\ UNCHANGED <<hasError, loadFlag>>
           /\ isLoading' = FALSE
           /\ loads' = RemoveAt(loads, k)
    /\ UNCHANGED <<batch, net, requested>>

\* The k-th listing request in flight settles, and nothing follows it.
loadFiles_settle(k, o) ==
    /\ k \in 1..Len(loads)
    /\ loads[k].next = "none"
    /\ loadFiles_rest(k, o)
    /\ UNCHANGED <<proxyVars, connection, imageVars, storeVars, navVars>>

\* the Root button, the refresh button and a click on a listed folder
rootButton ==
    /\ Pending < MaxPending
    /\ loadFiles_begin(Root, hasError)
    /\ UNCHANGED <<currentPath, files, loadFlag, batch, net, proxyVars, connection, imageVars, storeVars, navVars>>

refreshButton ==
    /\ Pending < MaxPending
    /\ ~isLoading      \* <Button loading={isLoading}> is disabled while loading
    /\ loadFiles_begin(currentPath, hasError)
    /\ UNCHANGED <<currentPath, files, loadFlag, batch, net, proxyVars, connection, imageVars, storeVars, navVars>>

handleFolderClick(name) ==
    /\ Pending < MaxPending
    /\ ~isLoading /\ ~hasError /\ files # NoListing    \* the table is rendered
    /\ loadFiles_begin(IF startsWith(name, "/") THEN name
                       ELSE <<"/">> \o name \o <<"/">>, hasError)
    /\ UNCHANGED <<currentPath, files, loadFlag, batch, net, proxyVars, connection, imageVars, storeVars, navVars>>

\* ---------------------------------------------------------------- onDrop
UploadReq(b, i, path, name) ==
    [batch |-> b, index |-> i,
     req |-> Request("PUT", getBaseUrl(connection),
                     uploadFile_suffix(path, File(name)), connection.password)]

\* mutant: every upload of the drop is started at once
onDrop_issued_parallel(b, acceptedFiles, path) ==
    {UploadReq(b, i, path, acceptedFiles[i]) : i \in 1..Len(acceptedFiles)}

\* the upload requests onDrop has issued when it first suspends: the loop
\* awaits the first file's upload
onDrop_issued(b, acceptedFiles, path) ==
    {UploadReq(b, 1, path, acceptedFiles[1])}

\* onDrop(acceptedFiles) from the dropzone (disabled while isLoading) or from
\* the file-upload input, up to the first `await api.uploadFile`.
onDrop(b, via, acceptedFiles) ==
    /\ batch[b].pc = "idle"
    /\ Pending < MaxPending
    /\ via = "dropzone" => ~isLoading
    /\ batch' = [batch EXCEPT ![b] =
                    [pc |-> "uploading", files |-> acceptedFiles, path |-> currentPath,
                     hadError |-> hasError, reports |-> <<>>, settled |-> <<>>]]
    /\ net' = net \cup onDrop_issued(b, acceptedFiles, currentPath)
    /\ UNCHANGED <<currentPath, files, isLoading, hasError, loadFlag, loads, requested,
                   proxyVars, connection, imageVars, storeVars, navVars>>

\* mutant: every file is reported as uploaded
onDrop_report_alwaysSuccess(name, result) ==
    [name |-> name, ok |-> TRUE,
     text |-> <<"File ">> \o name \o <<" uploaded successfully">>]

\* the report of one file: onSuccess(...) or onError(...)
onDrop_report(name, result) ==
    IF result.kind = "throw"
    THEN [name |-> name, ok |-> FALSE, text |-> <<"Failed to upload ">> \o name]
    ELSE [name |-> name, ok |-> TRUE,
          text |-> <<"File ">> \o name \o <<" uploaded successfully">>]

\* mutant: the listing is refreshed after every upload of the batch
onDrop_refreshes_each(i, acceptedFiles) == TRUE

\* whether onDrop calls loadFiles after the i-th upload settled: the call
\* follows the for..of loop
onDrop_refreshes(i, acceptedFiles) == i = Len(acceptedFiles)

\* The awaited upload of batch b settles: the file is reported, then the loop
\* issues the next upload, or ends and calls loadFiles(currentPath).  The
\* field settled keeps how the storage API answered each upload.
onDrop_settle(b, r, o) ==
    /\ batch[b].pc = "uploading"
    /\ r \in net /\ r.batch = b /\ r.index = Len(batch[b].reports) + 1
    /\ LET bt == batch[b]
           i == r.index
           reports == Append(bt.reports,
                             onDrop_report(bt.files[i], uploadFile_result(o)))
           settled == Append(bt.settled, AxiosResolves(o))
       IN  /\ IF i < Len(bt.files)
              THEN /\ batch' = [batch EXCEPT ![b].reports = reports,
                                             ![b].settled = settled]
                   /\ net' = (net \ {r})
                                \cup {UploadReq(b, i + 1, bt.path, bt.files[i + 1])}
              ELSE /\ batch' = [batch EXCEPT ![b].reports = reports,
                                             ![b].settled = settled,
                                             ![b].pc = "done"]
                   /\ net' = net \ {r}
           /\ IF onDrop_refreshes(i, bt.files)
              THEN loadFiles_begin(bt.path, bt.hadError)
              ELSE UNCHANGED <<isLoading, hasError, loads, requested>>
    /\ UNCHANGED <<currentPath, files, loadFlag, proxyVars, connection, imageVars, storeVars, navVars>>

\* The file manager right after it mounted for a connection: the effect has
\* called loadFiles().
InitFM ==
    /\ pc = "idle" /\ call = NoCall /\ req = NoReq /\ outcome = NoOutcome
    /\ res = NoRes /\ probe = NoRes
    /\ connection = Connection("storage.bunnycdn.com", "zone", "secret",
                                "https://pull.b-cdn.net")
    /\ currentPath = Root
    /\ files = NoListing
    /\ isLoading = TRUE
    /\ hasError = FALSE
    /\ loadFlag = <<>>
    /\ loads = <<Load(Root, FALSE, "none")>>
    /\ batch = [b \in Batches |-> IdleBatch]
    /\ net = {}
    /\ requested = Root
    /\ ImageOptimizerUnmounted
    /\ ZoneUntouched
    /\ EntriesUntouched

NextFM ==
    \/ \E k \in 1..MaxPending, o \in FMOutcomes : loadFiles_settle(k, o)
    \/ rootButton
    \/ refreshButton
    \/ \E n \in FolderNames : handleFolderClick(n)
    \/ \E b \in Batches, via \in {"dropzone", "input"}, fs \in Drops : onDrop(b, via, fs)
    \/ \E b \in Batches, r \in net, o \in FMOutcomes : onDrop_settle(b, r, o)

SpecFM == InitFM /\ [][NextFM]_vars

\* C10: the uploads of one onDrop batch run one at a time in submission
\* order: at most one upload of the batch is in flight, it is the upload of
\* the first file not yet reported, and the reports follow the batch order.
C10_UploadsOneAtATime ==
    \A b \in Batches :
        LET bt == batch[b]
            mine == {r \in net : r.batch = b}
        IN  /\ Cardinality(mine) <= 1
            /\ \A r \in mine :
                  /\ bt.pc = "uploading"
                  /\ r.index = Len(bt.reports) + 1
                  /\ r.req = UploadReq(b, r.index, bt.path, bt.files[r.index]).req
            /\ Len(bt.reports) <= Len(bt.files)
            /\ \A k \in 1..Len(bt.reports) : bt.reports[k].name = bt.files[k]
            /\ bt.pc = "done" => Len(bt.reports) = Len(bt.files)
C10_Witness ==
    \E b \in Batches :
        /\ batch[b].files = <<<<"f">>, <<"g">>>>
        /\ Len(batch[b].reports) = 1 /\ ~batch[b].reports[1].ok
        /\ \E r \in net : r.batch = b /\ r.index = 2

\* Reports of batch b that say its k-th file failed / was uploaded.
ErrorReport(name) == <<"Failed to upload ">> \o name
SuccessReport(name) == <<"File ">> \o name \o <<" uploaded successfully">>
MyUploads(b) == {r \in net : r.batch = b}

\* C11: onDrop triggers the listing refresh exactly once per batch, in the
\* step in which the last upload of the batch settles, whatever the uploads'
\* outcomes: every other step of the batch leaves the listing requests
\* alone, the finishing step adds one request for the batch's directory when
\* all files are reported and no upload is left, and a finished batch takes
\* no further step.
C11_RefreshOnceAfterBatch ==
    [][\A b \in Batches :
          LET bt == batch[b]
              bt2 == batch'[b]
          IN  /\ bt.pc = "done" => bt2 = bt
              /\ (bt2 # bt /\ bt2.pc # "done") => loads' = loads
              /\ (bt.pc # "done" /\ bt2.pc = "done") =>
                    /\ Len(bt2.reports) = Len(bt2.files)
                    /\ {r \in net' : r.batch = b} = {}
                    /\ Len(loads') = Len(loads) + 1
                    /\ SubSeq(loads', 1, Len(loads)) = loads
                    /\ loads'[Len(loads')].path = bt.path
                    /\ loads'[Len(loads')].req.suffix = listFiles_suffix(bt.path)
      ]_vars
C11_Witness ==
    \E b \in Batches :
        /\ batch[b].pc = "done"
        /\ batch[b].settled = <<FALSE, TRUE>>
        /\ \E k \in 1..Len(loads) : loads[k].path = batch[b].path

\* C12: every file of a batch gets exactly one report, in batch order; the
\* report is the success notification iff the storage API accepted that
\* file's own upload and otherwise the error notification naming the file;
\* a finished batch has reported every file, whatever failed before.
C12_OneReportPerFile ==
    \A b \in Batches :
        LET bt == batch[b]
        IN  /\ Len(bt.reports) = Len(bt.settled)
            /\ Len(bt.reports) <= Len(bt.files)
            /\ \A k \in 1..Len(bt.reports) :
                  /\ bt.reports[k].name = bt.files[k]
                  /\ bt.reports[k].ok = bt.settled[k]
                  /\ bt.reports[k].text = IF bt.settled[k]
                                          THEN SuccessReport(bt.files[k])
                                          ELSE ErrorReport(bt.files[k])
            /\ bt.pc = "done" => Len(bt.reports) = Len(bt.files)
            /\ (bt.pc = "uploading" /\ Len(bt.reports) < Len(bt.files))
                  => MyUploads(b) # {}
C12_Witness ==
    \E b \in Batches :
        /\ batch[b].pc = "done"
        /\ Len(batch[b].files) = 2
        /\ batch[b].reports[1].text = ErrorReport(<<"f">>)
        /\ batch[b].reports[2].text = SuccessReport(<<"g">>)

\* C13: no dependent action starts while an operation is in flight: no
\* upload batch starts while a listing request is in flight, and no
\* listing request is issued while another one is in flight.
C13_NoStartWhileInFlight ==
    [][/\ \A b \in Batches :
            (batch[b].pc = "idle" /\ batch'[b].pc = "uploading") => loads = <<>>
       /\ Len(loads') > Len(loads) => loads = <<>>
      ]_vars

\* ======================================================= ImageOptimizer
\* fetch(`${connection.url}${file.ObjectName}`): an unauthenticated GET to
\* the pull zone
FetchRequest(url, name) ==
    [method |-> "GET", base |-> [host |-> url, user |-> ""], suffix |-> name,
     accessKey |-> "", endpoint |-> "pull"]

\* How the awaited fetch settles: the browser's fetch resolves for every
\* HTTP answer, whatever its status, and rejects when no answer arrives.
FetchOutcomes ==
    {o \in Outcomes : /\ o.statusText = <<>> /\ o.message = <<>>
                      /\ \/ o.kind = "response" /\ o.status \in {200, 404}
                         \/ o.kind = "noResponse"}

\* file.ObjectName.split('/').pop()?.split('.')[0] || 'image'
LastIndexOf(seq, c) ==
    LET at == {i \in 1..Len(seq) : seq[i] = c}
    IN  IF at = {} THEN 0 ELSE CHOOSE i \in at : \A j \in at : j <= i
IndexOf(seq, c) ==
    LET at == {i \in 1..Len(seq) : seq[i] = c}
    IN  IF at = {} THEN 0 ELSE CHOOSE i \in at : \A j \in at : i <= j
baseName(ObjectName) ==
    LET last == SubSeq(ObjectName, LastIndexOf(ObjectName, "/") + 1, Len(ObjectName))
        dot == IndexOf(last, ".")
        stem == IF dot = 0 THEN last ELSE SubSeq(last, 1, dot - 1)
    IN  IF stem = <<>> THEN <<"image">> ELSE stem

\* file.name.replace(/\.[^/.]+$/, `.${format}`)
replaceExtension(name, format) ==
    LET dot == LastIndexOf(name, ".")
    IN  IF dot > 0 /\ dot < Len(name) /\ dot > LastIndexOf(name, "/")
        THEN SubSeq(name, 1, dot - 1) \o <<".", format>>
        ELSE name

\* mutant: an unset axis follows the other axis, keeping the aspect
canvasSize_keepAspect(img, options) ==
    [width |-> IF options.width # UndefinedNumber THEN options.width
               ELSE IF options.height # UndefinedNumber
                    THEN (img.width * options.height) \div img.height
                    ELSE img.width,
     height |-> IF options.height # UndefinedNumber THEN options.height
                ELSE IF options.width # UndefinedNumber
                     THEN (img.height * options.width) \div img.width
                     ELSE img.height]

\* const { width = img.width, height = img.height } = options;
\* canvas.width = width; canvas.height = height
canvasSize(img, options) ==
    [width |-> IF options.width = UndefinedNumber THEN img.width ELSE options.width,
     height |-> IF options.height = UndefinedNumber THEN img.height
                ELSE options.height]

\* const { quality = 0.8 } = options; canvas.toBlob(callback, type, quality)
toBlob_quality(options) ==
    IF options.quality = UndefinedNumber THEN Rat(8, 10) ELSE Num(options.quality)

\* the source rectangle drawImage reads
drawImage_source(img, cropRect) ==
    IF cropRect.present THEN cropRect ELSE PixelCrop(0, 0, img.width, img.height)

\* finalOptions.crop: completedCrop scaled from displayed to natural pixels
finalCrop(completedCrop, scale) ==
    IF completedCrop.present
    THEN PixelCrop(completedCrop.x * scale, completedCrop.y * scale,
                   completedCrop.width * scale, completedCrop.height * scale)
    ELSE NoPixelCrop

\* The File Name field when Optimize & Save is pressed: the stem the effect
\* put there for the file, or a name typed over it.
FileNameField(file) == {baseName(file.ObjectName), <<"g">>}

OptimizeFailed == [ok |-> FALSE, text |-> <<"Failed to optimize image">>]
\* `${newFileName}.${extension}`
finalFileName(o2) == o2.newFileName \o <<".", o2.options.format>>

OptimizeSaved(o2) ==
    [ok |-> TRUE,
     text |-> <<"Image optimized and saved as ">> \o finalFileName(o2) \o <<"!">>]

\* catch: onError('Failed to optimize image'); finally: setIsOptimizing(false)
handleOptimize_catch(o2) ==
    /\ opt' = [o2 EXCEPT !.pc = "done", !.req = NoReq]
    /\ optReports' = Append(optReports, OptimizeFailed)
    /\ isOptimizing' = FALSE
    /\ UNCHANGED canvas

\* await api.optimizeImage(originalFile, finalOptions): the promise is
\* created, img.src is set, and handleOptimize suspends
optimizeImage(o2, scale) ==
    /\ opt' = [o2 EXCEPT !.pc = "transforming", !.transform = "decoding",
                         !.crop = finalCrop(o2.completedCrop, scale), !.req = NoReq]
    /\ canvas' = NoCanvas
    /\ UNCHANGED <<isOptimizing, optReports>>

\* The Optimize & Save button (disabled while isOptimizing), up to the
\* first await: the fetch of the source, or optimizeImage for a local file.
handleOptimize(file, newFileName, options, completedCrop, scale) ==
    /\ ~isOptimizing
    /\ LET started == [IdleOpt EXCEPT !.file = file, !.newFileName = newFileName,
                                      !.options = options,
                                      !.completedCrop = completedCrop]
       IN  IF file.uploaded
           THEN /\ opt' = [started EXCEPT !.pc = "transforming", !.fetch = "skipped",
                                          !.transform = "decoding",
                                          !.crop = finalCrop(completedCrop, scale)]
           ELSE /\ opt' = [started EXCEPT !.pc = "fetching", !.fetch = "pending",
                                          !.req = FetchRequest(connection.url,
                                                               file.ObjectName)]
    /\ isOptimizing' = TRUE
    /\ optReports' = <<>>
    /\ canvas' = NoCanvas
    /\ UNCHANGED <<cropVars, storeVars, navVars, proxyVars, connection, fmVars>>

\* The fetch settles: any answer becomes the blob of originalFile and
\* optimizeImage is called; a rejection goes to the catch block.
handleOptimize_fetched(o, scale) ==
    /\ opt.pc = "fetching"
    /\ IF o.kind = "response"
       THEN optimizeImage([opt EXCEPT !.fetch = IF Is2xx(o.status) THEN "ok"
                                                ELSE "httpError"], scale)
       ELSE handleOptimize_catch([opt EXCEPT !.fetch = "rejected"])
    /\ UNCHANGED <<cropVars, storeVars, navVars, proxyVars, connection, fmVars>>

\* img.onload: the canvas is sized, the image is drawn and toBlob is asked
\* to encode it.
img_onload(img) ==
    /\ opt.pc = "transforming" /\ opt.transform = "decoding"
    /\ canvas' = [set |-> TRUE, img |-> img,
                  width |-> canvasSize(img, opt.options).width,
                  height |-> canvasSize(img, opt.options).height,
                  source |-> drawImage_source(img, opt.crop),
                  type |-> <<"image/", opt.options.format>>,
                  quality |-> toBlob_quality(opt.options)]
    /\ opt' = [opt EXCEPT !.transform = "encoding"]
    /\ UNCHANGED <<isOptimizing, optReports>>
    /\ UNCHANGED <<cropVars, storeVars, navVars, proxyVars, connection, fmVars>>

\* img.onerror: reject(new Error('Failed to load image')); handleOptimize
\* resumes in its catch block.
img_onerror ==
    /\ opt.pc = "transforming" /\ opt.transform = "decoding"
    /\ handleOptimize_catch([opt EXCEPT !.transform = "decodeError",
                                        !.settles = @ + 1])
    /\ UNCHANGED <<cropVars, storeVars, navVars, proxyVars, connection, fmVars>>

\* mutant: a null blob is ignored
toBlob_settles_blobOnly(blob) == IF blob THEN "resolved" ELSE "encoding"

\* the toBlob callback: resolve(optimizedFile) if (blob), else
\* reject(new Error('Failed to optimize image'))
toBlob_settles(blob) == IF blob THEN "resolved" ELSE "encodeError"

\* The encoder calls back with a blob or with null; on resolve
\* handleOptimize resumes and awaits api.uploadFile(optimizedFile, file.Path).
\* A callback that neither resolved nor rejected would leave it suspended.
toBlob_callback(blob) ==
    /\ opt.pc = "transforming" /\ opt.transform = "encoding"
    /\ LET t == toBlob_settles(blob)
           optimized == replaceExtension(opt.file.ObjectName, opt.options.format)
       IN  CASE t = "resolved" ->
                  /\ opt' = [opt EXCEPT
                               !.transform = t, !.settles = @ + 1,
                               !.optimized = optimized,
                               !.pc = "uploading", !.upload = "pending",
                               !.req = Request("PUT", getBaseUrl(connection),
                                               uploadFile_suffix(opt.file.Path,
                                                                 File(optimized)),
                                               connection.password)]
                  /\ UNCHANGED <<isOptimizing, optReports, canvas>>
             [] t = "encodeError" ->
                  handleOptimize_catch([opt EXCEPT !.transform = t, !.settles = @ + 1])
             [] OTHER ->
                  /\ opt' = [opt EXCEPT !.transform = "ignored"]
                  /\ UNCHANGED <<isOptimizing, optReports, canvas>>
    /\ UNCHANGED <<cropVars, storeVars, navVars, proxyVars, connection, fmVars>>

\* The awaited upload settles: onSuccess(...) and the finally block, or the
\* catch block.
handleOptimize_uploaded(o) ==
    /\ opt.pc = "uploading"
    /\ IF uploadFile_result(o).kind = "throw"
       THEN handleOptimize_catch([opt EXCEPT !.upload = "failed"])
       ELSE /\ opt' = [opt EXCEPT !.pc = "done", !.upload = "ok", !.req = NoReq]
            /\ optReports' = Append(optReports, OptimizeSaved(opt))
            /\ isOptimizing' = FALSE
            /\ UNCHANGED canvas
    /\ UNCHANGED <<cropVars, storeVars, navVars, proxyVars, connection, fmVars>>

\* The dialog is closed (onClose, or onSuccess after a save) and opened
\* again: ImageOptimizer is mounted anew with its initial state.
closeOptimizer ==
    /\ opt.pc = "done"
    /\ isOptimizing' = FALSE
    /\ opt' = IdleOpt
    /\ canvas' = NoCanvas
    /\ optReports' = <<>>
    /\ UNCHANGED <<cropVars, storeVars, navVars, proxyVars, connection, fmVars>>

\* A connected session: the file manager has listed the root; the
\* optimizer dialog is freshly mounted when a step of it is taken.
InitConnected ==
    /\ pc = "idle" /\ call = NoCall /\ req = NoReq /\ outcome = NoOutcome
    /\ res = NoRes /\ probe = NoRes
    /\ connection = Connection("storage.bunnycdn.com", "zone", "secret",
                                "https://pull.b-cdn.net")
    /\ currentPath = Root
    /\ files = Root
    /\ isLoading = FALSE
    /\ hasError = FALSE
    /\ loadFlag = <<>>
    /\ loads = <<>>
    /\ batch = [b \in Batches |-> IdleBatch]
    /\ net = {}
    /\ requested = Root
    /\ ImageOptimizerUnmounted
    /\ ZoneUntouched
    /\ EntriesUntouched

ImageEvent == (\E img \in ImageSizes : img_onload(img)) \/ img_onerror
BlobEvent == \E blob \in BOOLEAN : toBlob_callback(blob)

\* A further optimize-and-save is taken in a dialog opened anew; a retry in
\* the open dialog starts from the same values, since handleOptimize reads
\* nothing that the previous run wrote.
NextOptimizer ==
    \/ /\ opt.pc = "idle"
       /\ \E file \in OptimizerFiles, options \in OptionValues,
             completedCrop \in CompletedCrops, scale \in Scales :
          \E newFileName \in FileNameField(file) :
             handleOptimize(file, newFileName, options, completedCrop, scale)
    \/ \E o \in FetchOutcomes, scale \in Scales : handleOptimize_fetched(o, scale)
    \/ \E img \in ImageSizes : img_onload(img)
    \/ img_onerror
    \/ \E blob \in BOOLEAN : toBlob_callback(blob)
    \/ \E o \in FMOutcomes : handleOptimize_uploaded(o)
    \/ closeOptimizer

SpecOptimizer == InitConnected /\ [][NextOptimizer]_vars

\* The browser delivers the load or error event of an image whose src was
\* set, and toBlob calls its callback.
SpecOptimizerFair ==
    SpecOptimizer /\ WF_vars(ImageEvent) /\ WF_vars(BlobEvent)

\* the steps of optimize-and-save that failed
FetchFailed == opt.fetch \in {"httpError", "rejected"}
TransformFailed == opt.transform \in {"decodeError", "encodeError"}
UploadFailed == opt.upload = "failed"

\* C14: optimize-and-save runs fetch, transform, upload in this order: the
\* transform starts only on fetched (or local) source bytes, the upload only
\* after the transform resolved, success is reported only after the upload
\* succeeded; once a step failed no later step runs, and the finished action
\* has exactly one report (the error iff a step failed) with isOptimizing
\* cleared.
C14_OptimizeStepsInOrder ==
    /\ opt.transform # "none" => opt.fetch \in {"ok", "skipped"}
    /\ opt.upload # "none" => opt.transform = "resolved"
    /\ FetchFailed => opt.transform = "none" /\ opt.upload = "none"
    /\ TransformFailed => opt.upload = "none"
    /\ (\E k \in 1..Len(optReports) : optReports[k].ok) => opt.upload = "ok"
    /\ opt.pc = "done" =>
          /\ ~isOptimizing
          /\ optReports = IF FetchFailed \/ TransformFailed \/ UploadFailed
                          THEN <<OptimizeFailed>>
                          ELSE <<OptimizeSaved(opt)>>
    /\ opt.pc \notin {"idle", "done"} => isOptimizing /\ optReports = <<>>

TransformPending == opt.pc = "transforming"
TransformSettled == opt.transform \in {"resolved", "decodeError", "encodeError"}

\* C15: every call of optimizeImage settles exactly once: its promise is
\* resolved or rejected at most once, it is settled exactly when it holds
\* the encoded image, a decode failure or an encode failure, and a call
\* that is pending eventually settles.
C15_TransformSettlesOnce ==
    /\ [](opt.settles <= 1)
    /\ [](TransformSettled <=> opt.settles = 1)
    /\ [](TransformPending => ~TransformSettled)
    /\ (TransformPending ~> TransformSettled)
C15_Witness ==
    /\ opt.transform = "encodeError"
    /\ opt.settles = 1
    /\ canvas.set
    /\ optReports = <<OptimizeFailed>>

\* C16: the output canvas has width options.width when it is set and the
\* source width otherwise, and height options.height when it is set and the
\* source height otherwise, each axis on its own and whatever the crop:
\* width 100 with a 50x50 crop on a 200x200 source gives 100 x 200, and no
\* width/height on a 200x100 source gives 200 x 100.
C16_CanvasAxesDefault ==
    canvas.set =>
        /\ canvas.width = IF opt.options.width # UndefinedNumber
                          THEN opt.options.width ELSE canvas.img.width
        /\ canvas.height = IF opt.options.height # UndefinedNumber
                           THEN opt.options.height ELSE canvas.img.height
        /\ ( /\ canvas.img = [width |-> 200, height |-> 200]
             /\ opt.options.width = 100 /\ opt.options.height = UndefinedNumber )
           => canvas.width = 100 /\ canvas.height = 200
        /\ ( /\ canvas.img = [width |-> 200, height |-> 100]
             /\ opt.options.width = UndefinedNumber
             /\ opt.options.height = UndefinedNumber )
           => canvas.width = 200 /\ canvas.height = 100
C16_Witness ==
    /\ canvas.set
    /\ canvas.img = [width |-> 200, height |-> 200]
    /\ opt.options.width = 100 /\ opt.options.height = UndefinedNumber
    /\ opt.crop = PixelCrop(0, 0, 50, 50)
    /\ canvas.source = PixelCrop(0, 0, 50, 50)
    /\ canvas.width = 100 /\ canvas.height = 200

\* C17: for a quality q of 10..100 in the options the encoder is handed
\* q/100, a value in [0.1, 1].
C17_EncoderQualityScaled ==
    canvas.set =>
        /\ canvas.quality = Rat(opt.options.quality, 100)
        /\ ~Greater(Rat(1, 10), canvas.quality)
        /\ ~Greater(canvas.quality, Num(1))

\* ================================================== aspect-ratio helper
\* ratio.split('/').map(Number): the terms between the '/' characters
Number(token) ==
    CASE token = "1" -> Num(1) [] token = "2" -> Num(2) [] token = "3" -> Num(3)
      [] token = "4" -> Num(4) [] token = "9" -> Num(9) [] token = "16" -> Num(16)
      [] OTHER -> NaN
split(ratio) == SelectSeq(ratio, LAMBDA c : c # "/")
\* const [width, height] = ...: a missing element is undefined
ElementAt(seq, i) == IF i <= Len(seq) THEN Number(seq[i]) ELSE Undefined

\* setCrop({unit: 'px', x: (originalImage.width - cropWidth) / 2, ...})
centeredCrop(image, cropWidth, cropHeight) ==
    Crop(Over(Minus(Num(image.width), cropWidth), Num(2)),
         Over(Minus(Num(image.height), cropHeight), Num(2)),
         cropWidth, cropHeight)

\* the else branch of handleAspectRatioChange for a loaded image
ratioCrop(image, ratio) ==
    LET width == ElementAt(split(ratio), 1)
        height == ElementAt(split(ratio), 2)
        imageAspect == Over(Num(image.width), Num(image.height))
        cropAspect == Over(width, height)
    IN  IF Greater(imageAspect, cropAspect)
        THEN LET cropHeight == MathMin(Num(image.height),
                                       Over(Num(image.width), cropAspect))
                 cropWidth == Times(cropHeight, cropAspect)
             IN  centeredCrop(image, cropWidth, cropHeight)
        ELSE LET cropWidth == MathMin(Num(image.width),
                                      Times(Num(image.height), cropAspect))
                 cropHeight == Over(cropWidth, cropAspect)
             IN  centeredCrop(image, cropWidth, cropHeight)

\* A click on one of the Quick Ratios buttons.
handleAspectRatioChange(ratio) ==
    /\ aspectRatio' = ratio
    /\ IF ratio = <<"free">>
       THEN crop' = NoCrop
       ELSE IF ratio = <<"original">> /\ originalImage # NoImage
            THEN crop' = Crop(Num(0), Num(0), Num(originalImage.width),
                              Num(originalImage.height))
            ELSE IF originalImage # NoImage
                 THEN crop' = ratioCrop(originalImage, ratio)
                 ELSE UNCHANGED crop
    /\ UNCHANGED originalImage
    /\ UNCHANGED <<optimizerVars, storeVars, navVars, proxyVars, connection, fmVars>>

\* The effect's image has loaded: setOriginalImage(img).
originalImage_onload(img) ==
    /\ originalImage = NoImage
    /\ originalImage' = img
    /\ UNCHANGED <<aspectRatio, crop>>
    /\ UNCHANGED <<optimizerVars, storeVars, navVars, proxyVars, connection, fmVars>>

NextCrop ==
    \/ \E img \in CropImageSizes : originalImage_onload(img)
    \/ \E ratio \in AspectRatioValues : handleAspectRatioChange(ratio)

SpecCrop == InitConnected /\ [][NextCrop]_vars

\* the ratios w:h the helper offers, by option value
OfferedRatios ==
    {<<"1">>, <<"4", "/", "3">>, <<"16", "/", "9">>, <<"3", "/", "2">>,
     <<"2", "/", "3">>}
RatioOf(value) ==
    CASE value = <<"1">> -> Rat(1, 1)
      [] value = <<"4", "/", "3">> -> Rat(4, 3)
      [] value = <<"16", "/", "9">> -> Rat(16, 9)
      [] value = <<"3", "/", "2">> -> Rat(3, 2)
      [] value = <<"2", "/", "3">> -> Rat(2, 3)
\* a step in which the helper set the crop for a loaded image and an
\* offered ratio
HelperSetsCrop ==
    /\ originalImage # NoImage
    /\ aspectRatio' \in OfferedRatios
    /\ <<aspectRatio', crop'>> # <<aspectRatio, crop>>
AtLeast(a, b) == IsNumber(a) /\ IsNumber(b) /\ a[1] * b[2] >= b[1] * a[2]
SameNumber(a, b) == IsNumber(a) /\ IsNumber(b) /\ a = b
Plus(a, b) ==
    IF IsNumber(a) /\ IsNumber(b) THEN Rat(a[1] * b[2] + b[1] * a[2], a[2] * b[2])
    ELSE NaN
\* the rectangle the rule gives for a W x H source and the ratio t = w/h
RuleCrop(W, H, t) ==
    LET width == IF Greater(Rat(W, H), t) THEN Times(Num(H), t) ELSE Num(W)
        height == IF Greater(Rat(W, H), t) THEN Num(H) ELSE Over(Num(W), t)
    IN  Crop(Over(Minus(Num(W), width), Num(2)), Over(Minus(Num(H), height), Num(2)),
             width, height)

\* C18: for a W x H source and an offered ratio w:h the helper sets the
\* crop to height H and width H*(w/h) when W/H > w/h, otherwise to width W
\* and height W/(w/h), with x = (W - width)/2 and y = (H - height)/2; for
\* 400 x 200 and 1:1 that is width 200, height 200, x 100, y 0.
C18_HelperFollowsRule ==
    [][HelperSetsCrop =>
         /\ crop' = RuleCrop(originalImage.width, originalImage.height,
                             RatioOf(aspectRatio'))
         /\ (originalImage = [width |-> 400, height |-> 200]
               /\ aspectRatio' = <<"1">>)
            => crop' = Crop(Num(100), Num(0), Num(200), Num(200))
      ]_vars

\* C19: the rectangle the helper computes lies inside the source, has
\* exactly the requested ratio, touches the source on its binding axis and
\* is centered on both axes.
C19_HelperRectangle ==
    [][HelperSetsCrop =>
         LET W == Num(originalImage.width)
             H == Num(originalImage.height)
             c == crop'
         IN  /\ AtLeast(c.x, Num(0)) /\ AtLeast(c.y, Num(0))
             /\ AtLeast(W, Plus(c.x, c.width))
             /\ AtLeast(H, Plus(c.y, c.height))
             /\ SameNumber(Over(c.width, c.height), RatioOf(aspectRatio'))
             /\ (SameNumber(c.width, W) \/ SameNumber(c.height, H))
             /\ SameNumber(Times(c.x, Num(2)), Minus(W, c.width))
             /\ SameNumber(Times(c.y, Num(2)), Minus(H, c.height))
      ]_vars

\* ============================================= storage zone round trip
\* The storage API behind the client, as the client relies on it: a PUT to
\* {zone}/{key} that is answered 2xx has written the object at that key, and
\* a GET of {zone}/{dir}/ that is answered 2xx lists what the zone holds
\* directly under dir.  Repeated '/' in a request path count as one.
StoreDirs == {<<"/">>, <<"/", "a">>, <<"/", "a", "/">>, <<"a">>, <<"a", "/">>}
StoreNames == {<<"f">>, <<"g">>}
Lengths == 1..MaxBytes

RECURSIVE CollapseSlashes(_)
CollapseSlashes(key) ==
    IF Len(key) < 2 THEN key
    ELSE IF key[1] = "/" /\ key[2] = "/" THEN CollapseSlashes(Tail(key))
         ELSE <<key[1]>> \o CollapseSlashes(Tail(key))

ZonePut(z, key, n) ==
    {e \in z : e.key # CollapseSlashes(key)}
        \cup {[key |-> CollapseSlashes(key), length |-> n]}

IsPrefix(p, key) == Len(p) <= Len(key) /\ SubSeq(key, 1, Len(p)) = p
\* the BunnyFile entries of a directory listing
ZoneList(z, suffix) ==
    LET dir == CollapseSlashes(suffix)
        under == {e \in z : IsPrefix(dir, e.key) /\ Len(e.key) > Len(dir)}
        rest(e) == SubSeq(e.key, Len(dir) + 1, Len(e.key))
    IN  {IF IndexOf(rest(e), "/") = 0
         THEN [ObjectName |-> rest(e), Length |-> e.length, IsDirectory |-> FALSE]
         ELSE [ObjectName |-> SubSeq(rest(e), 1, IndexOf(rest(e), "/") - 1),
               Length |-> 0, IsDirectory |-> TRUE] : e \in under}

\* api.uploadFile(file, d) for a file named f of n bytes, up to the await
storeFile(d, f, n) ==
    /\ rt.pc = "idle"
    /\ rt' = [pc |-> "storing", d |-> d, f |-> f, n |-> n,
              req |-> Request("PUT", getBaseUrl(connection),
                              uploadFile_suffix(d, File(f)), connection.password),
              entries |-> {}]
    /\ UNCHANGED zone
    /\ UNCHANGED <<imageVars, proxyVars, connection, fmVars, navVars>>

\* The PUT settles: a 2xx answer means the zone took the body; otherwise
\* uploadFile throws and the round trip is over.
storeFile_settle(o) ==
    /\ rt.pc = "storing"
    /\ IF uploadFile_result(o).kind = "throw"
       THEN /\ rt' = IdleRt
            /\ UNCHANGED zone
       ELSE /\ rt' = [rt EXCEPT !.pc = "stored", !.req = NoReq]
            /\ zone' = ZonePut(zone, rt.req.suffix, rt.n)
    /\ UNCHANGED <<imageVars, proxyVars, connection, fmVars, navVars>>

\* the following api.listFiles(d), up to the await
listDirectory ==
    /\ rt.pc = "stored"
    /\ rt' = [rt EXCEPT !.pc = "listing",
                        !.req = Request("GET", getBaseUrl(connection),
                                        listFiles_suffix(rt.d), connection.password)]
    /\ UNCHANGED zone
    /\ UNCHANGED <<imageVars, proxyVars, connection, fmVars, navVars>>

\* The GET settles: listFiles returns response.data, or throws (and may be
\* called again).
listDirectory_settle(o) ==
    /\ rt.pc = "listing"
    /\ IF listFiles_result(o).kind = "throw"
       THEN rt' = [rt EXCEPT !.pc = "stored", !.req = NoReq]
       ELSE rt' = [rt EXCEPT !.pc = "listed", !.req = NoReq,
                             !.entries = ZoneList(zone, rt.req.suffix)]
    /\ UNCHANGED zone
    /\ UNCHANGED <<imageVars, proxyVars, connection, fmVars, navVars>>

\* the listing has been consumed; the next store may start
nextRoundTrip ==
    /\ rt.pc = "listed"
    /\ rt' = IdleRt
    /\ UNCHANGED zone
    /\ UNCHANGED <<imageVars, proxyVars, connection, fmVars, navVars>>

NextStore ==
    \/ \E d \in StoreDirs, f \in StoreNames, n \in Lengths : storeFile(d, f, n)
    \/ \E o \in FMOutcomes : storeFile_settle(o)
    \/ listDirectory
    \/ \E o \in FMOutcomes : listDirectory_settle(o)
    \/ nextRoundTrip

SpecStore == InitConnected /\ [][NextStore]_vars

\* the key of directory d in the zone: no leading '/', one trailing '/'
\* unless d is the root
DirKey(d) ==
    LET stripped == IF startsWith(d, "/") THEN substring(d, 1) ELSE d
    IN  IF stripped = <<>> \/ endsWith(stripped, "/") THEN stripped
        ELSE stripped \o <<"/">>

\* C20: a successful store(d, f, bytes) has written the object whose parent
\* directory is d and whose name is f, and a following list(d) contains an
\* entry with object name f and the length of the bytes stored, for root
\* and non-root d, with or without a trailing '/'.
C20_StoreThenList ==
    /\ rt.pc \in {"stored", "listing", "listed"}
          => [key |-> DirKey(rt.d) \o rt.f, length |-> rt.n] \in zone
    /\ rt.pc = "listed"
          => \E e \in rt.entries :
                e.ObjectName = rt.f /\ e.Length = rt.n /\ ~e.IsDirectory

\* ================================================ FileManager: entries
\* The zone the entries are listed from: the root holds the file f and the
\* folder a, the folder a holds the file g and the folder b.
FilesIn(d) ==
    IF d = Root THEN {<<"f">>}
    ELSE IF d = <<"/", "a", "/">> THEN {<<"g">>} ELSE {}
FoldersIn(d) ==
    IF d = Root THEN {<<"a">>}
    ELSE IF d = <<"/", "a", "/">> THEN {<<"b">>} ELSE {}
EntriesIn(d) == FilesIn(d) \cup FoldersIn(d)

\* the table of entries is rendered: not loading, no error, files.length > 0
tableRendered ==
    /\ ~isLoading /\ ~hasError
    /\ files # NoListing /\ EntriesIn(files) # {}

\* mutant: the entry is addressed by its name alone
fullFilePath_nameOnly(path, ObjectName) == ObjectName

\* `${currentPathClean}/${file.ObjectName}`
fullFilePath(path, ObjectName) ==
    LET currentPathClean ==
            IF path = Root THEN <<>>
            ELSE IF endsWith(path, "/") THEN SubSeq(path, 1, Len(path) - 1)
            ELSE path
    IN  currentPathClean \o <<"/">> \o ObjectName

\* onSuccess(text) / onError(text) of a handler
Report(ok, text) == [ok |-> ok, text |-> text]

\* A handler invoked on the entry called name: the currentPath, files and
\* hasError of its closure, and the request it awaits.
Invocation(op, name, confirmed, request) ==
    [pc |-> IF request = NoReq THEN "done" ELSE "awaiting", op |-> op, name |-> name,
     path |-> currentPath, listed |-> files, hadError |-> hasError,
     confirmed |-> confirmed,
     req |-> request, reports |-> <<>>]

\* mutant: the request is issued whatever the prompt answered
handleDeleteFile_request_unprompted(name, confirm) ==
    Request("DELETE", getBaseUrl(connection),
            deleteFile_suffix(fullFilePath(currentPath, name)), connection.password)

\* the DELETE request handleDeleteFile issues, if any
handleDeleteFile_request(name, confirm) ==
    IF confirm
    THEN Request("DELETE", getBaseUrl(connection),
                 deleteFile_suffix(fullFilePath(currentPath, name)),
                 connection.password)
    ELSE NoReq

\* handleDeleteFile(file) up to `await api.deleteFile(fullFilePath)`; confirm
\* is the answer to window.confirm.
handleDeleteFile(name, confirm) ==
    /\ entry.pc = "idle" /\ tableRendered /\ name \in EntriesIn(files)
    /\ Pending < MaxPending
    /\ entry' = Invocation("delete", name, confirm,
                           handleDeleteFile_request(name, confirm))
    /\ UNCHANGED <<tree, fmVars, proxyVars, connection, imageVars, storeVars>>

\* the awaited DELETE settles: the rest of handleDeleteFile up to
\* `await loadFiles(currentPath)`, after which nothing follows
handleDeleteFile_settle(o) ==
    /\ entry.pc = "awaiting" /\ entry.op = "delete"
    /\ LET result == deleteFile_result(o)
       IN  IF result.kind = "throw"
           THEN /\ entry' = [entry EXCEPT
                        !.pc = "done", !.req = NoReq,
                        !.reports = <<Report(FALSE, <<"Failed to delete file: ">>
                                                    \o result.error)>>]
                /\ UNCHANGED fmVars
           ELSE /\ entry' = [entry EXCEPT
                        !.pc = "done", !.req = NoReq,
                        !.reports = <<Report(TRUE, <<"File ">> \o entry.name
                                               \o <<" deleted successfully">>)>>]
                /\ loadFiles_begin(entry.path, entry.hadError)
                /\ UNCHANGED <<currentPath, files, loadFlag, batch, net>>
    /\ UNCHANGED <<tree, proxyVars, connection, imageVars, storeVars>>

\* handleDownloadFile(file) up to `await api.downloadFile(fullFilePath)`
handleDownloadFile(name) ==
    /\ entry.pc = "idle" /\ tableRendered /\ name \in EntriesIn(files)
    /\ entry' = Invocation("download", name, TRUE,
                           Request("GET", getBaseUrl(connection),
                                   downloadFile_suffix(fullFilePath(currentPath, name)),
                                   connection.password))
    /\ UNCHANGED <<tree, fmVars, proxyVars, connection, imageVars, storeVars>>

handleDownloadFile_settle(o) ==
    /\ entry.pc = "awaiting" /\ entry.op = "download"
    /\ LET result == downloadFile_result(o)
       IN  entry' = [entry EXCEPT
                        !.pc = "done", !.req = NoReq,
                        !.reports =
                            IF result.kind = "throw"
                            THEN <<Report(FALSE, <<"Failed to download file">>)>>
                            ELSE <<Report(TRUE, <<"File ">> \o entry.name
                                            \o <<" downloaded successfully">>)>>]
    /\ UNCHANGED <<tree, fmVars, proxyVars, connection, imageVars, storeVars>>

\* connection.url without a trailing '/'
linkBaseUrl(url) ==
    IF url = "https://pull.b-cdn.net/" THEN "https://pull.b-cdn.net" ELSE url

\* `${baseUrl}${filePath}`: the public delivery URL of an entry
fileUrl(name) ==
    [method |-> "GET", base |-> [host |-> linkBaseUrl(connection.url), user |-> ""],
     suffix |-> fullFilePath(currentPath, name), accessKey |-> "",
     endpoint |-> "pull"]

\* handleFileClick(file): window.open(fileUrl, '_blank'), the browser reads
\* the link
handleFileClick(name) ==
    /\ entry.pc = "idle" /\ tableRendered /\ name \in FilesIn(files)
    /\ entry' = [Invocation("open", name, TRUE, fileUrl(name)) EXCEPT !.pc = "done"]
    /\ UNCHANGED <<tree, fmVars, proxyVars, connection, imageVars, storeVars>>

\* handleCopyFileUrl(file): the link goes to the clipboard, no request is
\* made; written tells whether clipboard.writeText resolved
handleCopyFileUrl(name, written) ==
    /\ entry.pc = "idle" /\ tableRendered /\ name \in FilesIn(files)
    /\ entry' = [Invocation("copy", name, TRUE, NoReq) EXCEPT
                    !.reports =
                        IF written THEN <<Report(TRUE, <<"File URL copied to clipboard">>)>>
                        ELSE <<Report(FALSE, <<"Failed to copy URL to clipboard">>)>>]
    /\ UNCHANGED <<tree, fmVars, proxyVars, connection, imageVars, storeVars>>

\* currentPath.split('/').filter(part => part !== '')
RECURSIVE pathParts(_, _)
pathParts(path, part) ==
    IF path = <<>> THEN (IF part = <<>> THEN <<>> ELSE <<part>>)
    ELSE IF Head(path) = "/"
         THEN (IF part = <<>> THEN <<>> ELSE <<part>>) \o pathParts(Tail(path), <<>>)
         ELSE pathParts(Tail(path), Append(part, Head(path)))

\* parts.join('/')
RECURSIVE join(_)
join(parts) ==
    IF parts = <<>> THEN <<>>
    ELSE IF Len(parts) = 1 THEN parts[1]
    ELSE parts[1] \o <<"/">> \o join(Tail(parts))

getParentPath(path) ==
    IF path = Root THEN Root
    ELSE LET parts == pathParts(path, <<>>)
         IN  IF Len(parts) <= 1 THEN Root
             ELSE <<"/">> \o join(SubSeq(parts, 1, Len(parts) - 1)) \o <<"/">>

\* the back button, rendered while currentPath is not '/'
handleBackClick ==
    /\ currentPath # Root
    /\ Pending < MaxPending
    /\ loadFiles_begin(getParentPath(currentPath), hasError)
    /\ UNCHANGED <<currentPath, files, loadFlag, batch, net, proxyVars, connection,
                   imageVars, storeVars, navVars>>

\* newFolderName.trim()
RECURSIVE trimStart(_)
trimStart(str) ==
    IF str # <<>> /\ Head(str) = " " THEN trimStart(Tail(str)) ELSE str
RECURSIVE trimEnd(_)
trimEnd(str) ==
    IF str # <<>> /\ str[Len(str)] = " " THEN trimEnd(SubSeq(str, 1, Len(str) - 1))
    ELSE str
trim(str) == trimEnd(trimStart(str))

NewFolderNames == {<<>>, <<" ">>, <<"c">>, <<" ", "c">>}

\* handleCreateFolder() up to `await api.uploadFile(keepFile, folderPath)`
handleCreateFolder(newFolderName) ==
    /\ entry.pc = "idle"
    /\ Pending < MaxPending
    /\ LET folderName == trim(newFolderName)
           folderPath == IF currentPath = Root THEN <<"/">> \o folderName \o <<"/">>
                         ELSE currentPath \o folderName \o <<"/">>
       IN  IF folderName = <<>>
           THEN entry' = [Invocation("createFolder", folderName, TRUE, NoReq) EXCEPT
                            !.reports = <<Report(FALSE, <<"Please enter a folder name">>)>>]
           ELSE entry' = Invocation("createFolder", folderName, TRUE,
                                    Request("PUT", getBaseUrl(connection),
                                            uploadFile_suffix(folderPath,
                                                              File(<<".keep">>)),
                                            connection.password))
    /\ UNCHANGED <<tree, fmVars, proxyVars, connection, imageVars, storeVars>>

\* the awaited PUT settles: the rest of handleCreateFolder up to
\* `await loadFiles(currentPath)`
handleCreateFolder_settle(o) ==
    /\ entry.pc = "awaiting" /\ entry.op = "createFolder"
    /\ LET result == uploadFile_result(o)
       IN  IF result.kind = "throw"
           THEN /\ entry' = [entry EXCEPT
                        !.pc = "done", !.req = NoReq,
                        !.reports = <<Report(FALSE, <<"Failed to create folder: ">>
                                                    \o result.error)>>]
                /\ UNCHANGED fmVars
           ELSE /\ entry' = [entry EXCEPT
                        !.pc = "listing", !.req = NoReq,
                        !.reports = <<Report(TRUE, <<"Folder \"">> \o entry.name
                                               \o <<"\" created successfully">>)>>]
                /\ loadFiles_await(entry.path, entry.hadError, "loadFolderTree")
                /\ UNCHANGED <<currentPath, files, loadFlag, batch, net>>
    /\ UNCHANGED <<tree, proxyVars, connection, imageVars, storeVars>>

\* a listing request of the folder tree: of the root (loadFolderTree) or of
\* an expanded folder (toggleFolderExpansion)
TreeLoad(folder, path) ==
    [folder |-> folder,
     req |-> Request("GET", getBaseUrl(connection), listFiles_suffix(path),
                     connection.password)]

\* the loadFiles that handleCreateFolder awaits returns: loadFolderTree() up
\* to `await api.listFiles('/')`
handleCreateFolder_listed(k, o) ==
    /\ k \in 1..Len(loads)
    /\ loads[k].next = "loadFolderTree"
    /\ loadFiles_rest(k, o)
    /\ entry' = [entry EXCEPT !.pc = "tree"]
    /\ tree' = [tree EXCEPT !.loads = @ \cup {TreeLoad(Root, Root)}]
    /\ UNCHANGED <<proxyVars, connection, imageVars, storeVars>>

\* the rest of loadFolderTree: setFolderTree(folders) unless the listing
\* failed; the handler that awaited it returns
loadFolderTree_settle(o) ==
    /\ TreeLoad(Root, Root) \in tree.loads
    /\ tree' = [tree EXCEPT
                    !.loads = @ \ {TreeLoad(Root, Root)},
                    !.folderTree = IF listFiles_result(o).kind = "throw" THEN @
                                   ELSE Root]
    /\ entry' = IF entry.pc = "tree" THEN [entry EXCEPT !.pc = "done"] ELSE entry
    /\ UNCHANGED <<fmVars, proxyVars, connection, imageVars, storeVars>>

\* the handler has returned; the next click is taken
handlerReturned ==
    /\ entry.pc = "done"
    /\ entry' = IdleEntry
    /\ UNCHANGED <<tree, fmVars, proxyVars, connection, imageVars, storeVars>>

NextNav ==
    \/ \E k \in 1..MaxPending, o \in FMOutcomes : loadFiles_settle(k, o)
    \/ rootButton
    \/ refreshButton
    \/ \E n \in FoldersIn(files) : handleFolderClick(n)
    \/ handleBackClick
    \/ \E n \in EntriesIn(files), confirm \in BOOLEAN : handleDeleteFile(n, confirm)
    \/ \E o \in FMOutcomes : handleDeleteFile_settle(o)
    \/ \E n \in EntriesIn(files) : handleDownloadFile(n)
    \/ \E o \in FMOutcomes : handleDownloadFile_settle(o)
    \/ \E n \in FilesIn(files) : handleFileClick(n)
    \/ \E n \in FilesIn(files), written \in BOOLEAN : handleCopyFileUrl(n, written)
    \/ \E n \in NewFolderNames : handleCreateFolder(n)
    \/ \E o \in FMOutcomes : handleCreateFolder_settle(o)
    \/ \E k \in 1..MaxPending, o \in FMOutcomes : handleCreateFolder_listed(k, o)
    \/ \E o \in FMOutcomes : loadFolderTree_settle(o)
    \/ handlerReturned

SpecNav == InitConnected /\ [][NextNav]_vars

\* C21: a download or delete of an entry that list(d) returned addresses the
\* upstream object d + objectName, the name unchanged and only one leading
\* '/' removed: the object the listing of d reported (the listing request
\* ends in '//' for a nested d, which the storage API reads as '/'), at the
\* root and in a nested directory alike.
C21_EntryAddressesListedObject ==
    (entry.pc = "awaiting" /\ entry.op \in {"delete", "download"}) =>
        LET d == entry.listed
        IN  /\ entry.req.base = getBaseUrl(connection)
            /\ entry.req.method = (IF entry.op = "delete" THEN "DELETE" ELSE "GET")
            /\ entry.req.suffix = substring(d \o entry.name, 1)
            /\ CollapseSlashes(entry.req.suffix)
                   = CollapseSlashes(listFiles_suffix(d) \o entry.name)

C21_Witness ==
    /\ entry.pc = "awaiting" /\ entry.op = "delete"
    /\ entry.listed = <<"/", "a", "/">> /\ entry.name = <<"g">>
    /\ entry.req.suffix = <<"a", "/", "g">>

\* ================================================================ console
\* console.error(label, error) with the error axios rejected with: the
\* console prints the error object, and an AxiosError carries the request
\* it was made for in error.config, the headers with their AccessKey
\* included.  An error raised before a request was set up has no config.
console_error(label, q, o) ==
    [label |-> label, kind |-> o.kind, status |-> o.status,
     AccessKey |-> IF o.kind = "setupError" THEN "" ELSE q.accessKey]

\* console.log(label, value) of a value that holds no header
console_log(label, status) ==
    [label |-> label, kind |-> "log", status |-> status, AccessKey |-> ""]

\* what testConnection() writes: the URL, the headers with the AccessKey
\* masked, then the status or the error and its details
testConnection_console(q, o) ==
    <<console_log("Testing connection to:", 0),
      [label |-> "Using headers:", kind |-> "log", status |-> 0, AccessKey |-> "***"]>>
    \o (IF AxiosResolves(o)
        THEN <<console_log("Connection test response:", o.status)>>
        ELSE <<console_error("Connection test failed:", q, o),
               console_log("Error details:", o.status)>>)

\* the label of the catch block that logs a failed call
console_label(c) ==
    CASE c.op = "list" -> "Failed to list files:"
      [] c.op = "store" -> "Failed to upload file:"
      [] c.op = "remove" -> "Failed to delete file:"
      [] c.op = "fetch" -> "Failed to download file:"
      [] c.op = "probe" -> "Bunny CDN connection test failed:"
      [] OTHER -> "Connection test failed:"

\* The console output of a call c that issued the request q and saw it
\* settle with outcome o.
console(c, q, o) ==
    IF q = NoReq THEN <<>>
    ELSE IF c.layer = "ui" /\ c.op = "connect" THEN testConnection_console(q, o)
    ELSE IF AxiosResolves(o) THEN <<>>
    ELSE <<console_error(console_label(c), q, o)>>

\* A second access secret, for the run that differs only in the secret.
OtherSecret == "secret2"

\* C22: nothing that is logged contains the access secret: the console
\* output of every settled probe, list, fetch, store and remove call is the
\* same in the run that differs only in the access secret, and no line of
\* it holds the secret.
C22_SecretNeverLogged ==
    (pc = "done" /\ req # NoReq) =>
        /\ console(call, req, outcome)
              = console([call EXCEPT !.password = OtherSecret],
                        [req EXCEPT !.accessKey = OtherSecret], outcome)
        /\ \A i \in 1..Len(console(call, req, outcome)) :
              console(call, req, outcome)[i].AccessKey # call.password

\* ------------------------------------------------------------ endpoints
\* r is a request to the authenticated storage endpoint
\* https://{host}/{zone}/... of the connection.
ToStorageEndpoint(r) ==
    /\ r.base = baseUrl(connection.host, connection.user)
    /\ r.accessKey = connection.password
\* r is a request to the public delivery URL of the connection.
ToDeliveryUrl(r) == r.base.host = linkBaseUrl(connection.url)

WellAddressed(r) ==
    /\ r.method \in {"PUT", "DELETE"} => ToStorageEndpoint(r)
    /\ ToDeliveryUrl(r) => r.method = "GET" /\ r.accessKey = ""

\* C23: every mutating request (the PUT of an upload or of a folder
\* creation, the DELETE of a removal) is addressed to the authenticated
\* storage endpoint https://{host}/{zone}/..., and the public delivery URL
\* only ever receives reads.
C23_MutationsGoToStorage ==
    /\ WellAddressed(req) /\ WellAddressed(entry.req)
    /\ WellAddressed(opt.req) /\ WellAddressed(rt.req)
    /\ \A i \in 1..Len(loads) : WellAddressed(loads[i].req)
    /\ \A u \in net : WellAddressed(u.req)
    /\ \A l \in tree.loads : WellAddressed(l.req)

C23_Witness ==
    /\ entry.pc = "awaiting" /\ entry.op = "createFolder"
    /\ entry.req.method = "PUT" /\ ToStorageEndpoint(entry.req)
    /\ entry.req.suffix = <<"a", "/", "c", "/", ".keep">>

\* ------------------------------------------------------------ connection
\* C24: the connection state has two transitions only.  It goes from none
\* to a Connection in the step in which the probe that handleConnect made
\* with exactly those credentials reports success (a failed probe, a thrown
\* error and a validation error leave it none), and from a Connection back
\* to none on disconnect.  The file manager's calls are made only while the
\* connection is present.
C24_ConnectionTransitions ==
    [][/\ connection' # connection =>
            \/ /\ connection = NoConnection
               /\ pc = "awaiting" /\ call.op \in {"connect", "connectBool"}
               /\ connection' = Connection(call.host, call.user, call.password, call.url)
               /\ req.base = getBaseUrl(connection')
               /\ req.accessKey = connection'.password
               /\ probe'.kind = "return" /\ probe'.success
               /\ AxiosResolves(outcome') /\ outcome'.status = 200
               /\ res'.success
            \/ /\ connection # NoConnection
               /\ connection' = NoConnection
               /\ call'.op = "disconnect"
       /\ call'.layer = "client" => connection' # NoConnection
      ]_vars

C24_Witness ==
    /\ pc = "done" /\ call.op = "connect"
    /\ probe.success
    /\ connection = Connection(call.host, call.user, call.password, call.url)

\* ============================================ FileManager: folder tree
\* the directory that api.listFiles(folderPath) lists for a folder name
DirOf(folderPath) ==
    IF startsWith(folderPath, "/") THEN folderPath
    ELSE <<"/">> \o folderPath \o <<"/">>

\* the folders the sidebar shows: those of folderTree, and under every
\* expanded folder the subfolders kept for it in folderContents
RECURSIVE shownUnder(_, _)
shownUnder(folders, depth) ==
    IF depth = 0 THEN folders
    ELSE folders \cup
         UNION {IF n \in tree.expandedFolders /\ tree.folderContents[n] \notin {NotLoaded, <<>>}
                THEN shownUnder(FoldersIn(DirOf(tree.folderContents[n])), depth - 1)
                ELSE {} : n \in folders}
renderFolderTree ==
    IF tree.folderTree = NotLoaded THEN {}
    ELSE shownUnder(FoldersIn(tree.folderTree), Cardinality(NavFolders))

\* toggleFolderExpansion(folder) up to `await api.listFiles(folderPath)`: a
\* collapse, an expansion served from folderContents, or an expansion that
\* requests the listing
toggleFolderExpansion(folder) ==
    /\ folder \in renderFolderTree
    /\ LET folderPath == folder
       IN  IF folderPath \in tree.expandedFolders
           THEN tree' = [tree EXCEPT !.expandedFolders = @ \ {folderPath}]
           ELSE IF tree.folderContents[folderPath] # NotLoaded
           THEN tree' = [tree EXCEPT !.expandedFolders = @ \cup {folderPath}]
           ELSE tree' = [tree EXCEPT !.expandedFolders = @ \cup {folderPath},
                                     !.loads = @ \cup {TreeLoad(folder, folderPath)}]
    /\ UNCHANGED <<entry, fmVars, proxyVars, connection, imageVars, storeVars>>

\* the awaited listing settles: the subfolders are kept in folderContents,
\* an empty array on error
toggleFolderExpansion_settle(folder, o) ==
    /\ TreeLoad(folder, folder) \in tree.loads
    /\ tree' = [tree EXCEPT
                    !.loads = @ \ {TreeLoad(folder, folder)},
                    !.folderContents[folder] =
                        IF listFiles_result(o).kind = "throw" THEN <<>> ELSE folder]
    /\ UNCHANGED <<entry, fmVars, proxyVars, connection, imageVars, storeVars>>

\* The file manager once its first listing has returned: the mount effect's
\* loadFolderTree() is still awaiting its listing.
InitTree ==
    /\ pc = "idle" /\ call = NoCall /\ req = NoReq /\ outcome = NoOutcome
    /\ res = NoRes /\ probe = NoRes
    /\ connection = Connection("storage.bunnycdn.com", "zone", "secret",
                                "https://pull.b-cdn.net")
    /\ currentPath = Root
    /\ files = Root
    /\ isLoading = FALSE
    /\ hasError = FALSE
    /\ loadFlag = <<>>
    /\ loads = <<>>
    /\ batch = [b \in Batches |-> IdleBatch]
    /\ net = {}
    /\ requested = Root
    /\ ImageOptimizerUnmounted
    /\ ZoneUntouched
    /\ entry = IdleEntry
    /\ tree = [IdleTree EXCEPT !.loads = {TreeLoad(Root, Root)}]

NextTree ==
    \/ \E o \in FMOutcomes : loadFolderTree_settle(o)
    \/ \E n \in NavFolders : toggleFolderExpansion(n)
    \/ \E n \in NavFolders, o \in FMOutcomes : toggleFolderExpansion_settle(n, o)
    \/ \E n \in FoldersIn(files) : handleFolderClick(n)
    \/ handleBackClick
    \/ refreshButton
    \/ \E k \in 1..MaxPending, o \in FMOutcomes : loadFiles_settle(k, o)
    \/ \E n \in NewFolderNames : handleCreateFolder(n)
    \/ \E o \in FMOutcomes : handleCreateFolder_settle(o)
    \/ \E k \in 1..MaxPending, o \in FMOutcomes : handleCreateFolder_listed(k, o)
    \/ handlerReturned

SpecTree == InitTree /\ [][NextTree]_vars

\* C25: listings are never served from a cache.  Whenever the contents of a
\* directory are displayed anew (the file table after a navigation or a
\* refresh, the subfolders of a folder expanded in the tree) they come from
\* a listing request made for that action: the table changes only in a
\* step in which a listing request of loadFiles settles, and a folder is
\* expanded only in a step that issues the listing request for it.
C25_ListingsNotCached ==
    [][/\ files' # files => Len(loads') < Len(loads)
       /\ \A n \in NavFolders :
            (n \notin tree.expandedFolders /\ n \in tree'.expandedFolders) =>
                /\ TreeLoad(n, n) \notin tree.loads
                /\ TreeLoad(n, n) \in tree'.loads
      ]_vars

\* ------------------------------------------------- overlapping loadFiles
\* C26: for any interleaving of overlapping loadFiles calls, the loading
\* flag is true in every state in which a listing request is still in
\* flight, and once all of them have settled (none of them having failed)
\* the displayed files and currentPath are those of the most recently
\* requested path.
C26_LatestRequestWins ==
    /\ loads # <<>> => isLoading
    /\ (loads = <<>> /\ loadFlag = <<>>) =>
            /\ currentPath = requested
            /\ files = requested

\* C27: loadFiles updates files and currentPath together and only on
\* success.  After a successful load files is the listing returned for
\* currentPath and the error flag is false; after a failed load files and
\* currentPath are unchanged and the error flag is true; in both cases the
\* loading flag is false when the call completes.
C27_LoadFilesFrame ==
    [][\A k \in 1..Len(loads), o \in FMOutcomes :
          loadFiles_settle(k, o) =>
              /\ IF AxiosResolves(o)
                 THEN /\ files' = loads[k].path
                      /\ currentPath' = loads[k].path
                      /\ ~hasError'
                 ELSE /\ files' = files
                      /\ currentPath' = currentPath
                      /\ hasError'
              /\ ~isLoading'
      ]_vars

\* ------------------------------------------------------ folder navigation
\* the directory whose listing holds the folder n
ListedUnder(n) == CHOOSE d \in {Root, <<"/", "a", "/">>} : n \in FoldersIn(d)

\* C28: folder navigation composes and inverts paths.  Clicking a directory
\* entry n listed under p lists p + n + '/', expanding it in the tree lists
\* that same directory, handleBackClick from p + n + '/' returns to p, and
\* getParentPath returns a path that starts and ends with '/', with
\* getParentPath('/') = '/'.
C28_NavigationComposes ==
    [][/\ \A n \in NavFolders :
            handleFolderClick(n) =>
                loads'[Len(loads')].path = files \o n \o <<"/">>
       /\ \A n \in NavFolders :
            (toggleFolderExpansion(n) /\ tree'.loads # tree.loads) =>
                \A l \in tree'.loads \ tree.loads :
                    CollapseSlashes(l.req.suffix)
                      = CollapseSlashes(listFiles_suffix(ListedUnder(n) \o n \o <<"/">>))
       /\ handleBackClick =>
                loads'[Len(loads')].path = getParentPath(currentPath)
       /\ \A d \in {Root, <<"/", "a", "/">>}, n \in NavFolders :
                getParentPath(d \o n \o <<"/">>) = d
       /\ \A path \in Paths :
                startsWith(getParentPath(path), "/") /\ endsWith(getParentPath(path), "/")
       /\ getParentPath(Root) = Root
      ]_vars

\* ------------------------------------------------------- optimized name
\* C29: after a successful optimize-and-save the object uploaded to storage
\* has exactly the name announced in the success message: the name entered
\* in the File Name field followed by '.' and the chosen format.
C29_SavedUnderAnnouncedName ==
    (opt.pc = "done" /\ opt.upload = "ok") =>
        /\ optReports = <<[ok |-> TRUE,
                           text |-> <<"Image optimized and saved as ">>
                                    \o opt.optimized \o <<"!">>]>>
        /\ opt.optimized = opt.newFileName \o <<".", opt.options.format>>

\* ------------------------------------------------------------- removal
\* C30: handleDeleteFile issues a DELETE request only after the user has
\* confirmed the prompt for that file; a declined prompt issues no request
\* and changes no state.  After a successful delete a success is reported
\* and the directory is listed again; after a failed delete exactly one
\* error is reported, no success, and files and currentPath are unchanged.
C30_DeleteAfterConfirm ==
    [][/\ entry'.req.method = "DELETE" => entry'.confirmed
       /\ \A n \in EntriesIn(files), confirm \in BOOLEAN :
            handleDeleteFile(n, confirm) =>
                /\ entry'.req.method = "DELETE" <=> confirm
                /\ entry'.name = n
                /\ ~confirm => /\ entry'.req = NoReq /\ entry'.reports = <<>>
                               /\ UNCHANGED fmVars
       /\ \A o \in FMOutcomes :
            handleDeleteFile_settle(o) =>
                IF AxiosResolves(o)
                THEN /\ Len(entry'.reports) = 1 /\ entry'.reports[1].ok
                     /\ loads' = Append(loads, Load(entry.path, entry.hadError, "none"))
                ELSE /\ Len(entry'.reports) = 1 /\ ~entry'.reports[1].ok
                     /\ files' = files /\ currentPath' = currentPath
                     /\ loads' = loads
      ]_vars

C30_Witness ==
    /\ entry.pc = "done" /\ entry.op = "delete" /\ entry.confirmed
    /\ entry.reports = <<Report(FALSE, <<"Failed to delete file: ",
                                         "Failed to delete file">>)>>
    /\ files = <<"/", "a", "/">> /\ loads = <<>>

====
